---- MODULE Spec2Model ----
(***************************************************************************)
(* A model of bd2wg's resource resolution and download subsystem:          *)
(*   - the Resolver's dedup cache (services/resolver.rs),                  *)
(*   - the Transpiler's resource list (services/transpiler.rs),            *)
(*   - the DownloadPool and its workers (services/downloader/pool.rs),     *)
(*   - the Downloader and its Live2D coordinators                          *)
(*     (services/downloader/service.rs),                                   *)
(*   - the DownloadPipeline (services/pipeline/download.rs).               *)
(*                                                                         *)
(* Strings are sequences of tokens: a user-supplied string is a sequence   *)
(* of one-character tokens, a string constant of the program is one token. *)
(***************************************************************************)
EXTENDS Integers, Sequences, FiniteSets, TLC

(***************************************************************************)
(* Bounds of the model.                                                    *)
(***************************************************************************)
\* number of resolve calls made on one Resolver instance
MaxCalls == 4
\* number of script actions of one story
MaxActions == 3
\* workers and download() calls of the pool driven by a free client
PoolWorkers == 2
PoolJobs == 2
\* download() calls made on a pool of one worker
SoloJobs == 6
\* resources of one download batch
MaxBatch == 2
\* textures, motions (and expressions) a build script names
MaxTextures == 3
MaxMotions == 1
\* calls of download / download_bind / download_lazy made on one DefaultDownloader,
\* and resources a bind callback returns
MaxDefaultCalls == 3
MaxBound == 1

(***************************************************************************)
(* Program constants.                                                      *)
(***************************************************************************)
RESOURCE_IMAGE_EXTEND == <<".png">>
RESOURCE_SOUND_EXTEND == <<".mp3">>
BESTDORI_ASSET_URL_ROOT == <<"https://bestdori.com/assets/jp/">>
BESTDORI_ASSET_URL_SE == <<"https://bestdori.com/res/CommonSE/">>
BESTDORI_ASSET_URL_MODEL == <<"https://bestdori.com/assets/jp/live2d/chara/">>
BESTDORI_ASSET_URL_MODEL_BUILDER == <<"buildData.asset">>

\* services/downloader/pool.rs
\* src/lib.rs (constant), the earlier downloader
DOWNLOAD_TASK_LIMIT == 32

TASK_MAX_RETRIES == 3
CLIENT_RESTART_FAILURE_THRESHOLD == 5
CLIENT_RESTART_LIMIT == 3

\* Option::None of an Option<webgal::Resource>
None == [kind |-> "None", url |-> <<>>, path |-> <<>>]

(***************************************************************************)
(* utils.rs: string helpers.                                               *)
(***************************************************************************)
\* the characters gen_name_from_url replaces by '_'
UnsafeChar(c) == c \in {":", "?", "*", "\"", "<", ">", "|", "\\", "/", " "}

GenNameChar(c) == IF UnsafeChar(c) THEN "_" ELSE c

gen_name_from_url(url, extend) ==
    [i \in 1..Len(url) |-> GenNameChar(url[i])] \o extend

\* ASCII letters of the modelled alphabet, upper case to lower case
UpperCase == {"A", "B"}
LowerCase == {"a", "b", "s"}
ToLower(c) == IF c = "A" THEN "a" ELSE IF c = "B" THEN "b" ELSE c
IsAsciiAlphabetic(c) == c \in UpperCase \cup LowerCase

RECURSIVE lower_first_alphabetic(_)
lower_first_alphabetic(s) ==
    IF s = <<>> THEN <<>>
    ELSE IF IsAsciiAlphabetic(Head(s)) THEN <<ToLower(Head(s))>> \o Tail(s)
    ELSE <<Head(s)>> \o lower_first_alphabetic(Tail(s))

(***************************************************************************)
(* models/bestdori/resource.rs: the source-side descriptors.               *)
(***************************************************************************)
UrlPath(u) == [t |-> "Url", url |-> u, file |-> <<>>, hasBundle |-> FALSE, bundle |-> <<>>]
FilePath(f) == [t |-> "File", url |-> <<>>, file |-> f, hasBundle |-> FALSE, bundle |-> <<>>]
BundlePath(f, b) == [t |-> "File", url |-> <<>>, file |-> f, hasBundle |-> TRUE, bundle |-> b]

BdResource(k, p) == [kind |-> k, path |-> p]

\* the descriptors a story may hold
Descriptors ==
    { BdResource("Custom", UrlPath(<<"h", ":", "/", "a">>)),
      BdResource("Bandori", BundlePath(<<"B", "g">>, <<"b">>)),
      BdResource("Bandori", FilePath(<<"B", "g">>)),
      BdResource("Common", FilePath(<<"s">>)) }

\* the costume names a story may hold
Costumes == { <<"A">>, <<"B">> }

\* traits/resolve.rs: ResourceType
ResolveTypes == {"Image", "Bgm", "Se"}

(***************************************************************************)
(* models/webgal/resource.rs                                               *)
(***************************************************************************)
WgResource(k, u, p) == [kind |-> k, url |-> u, path |-> p]

\* strum camelCase Display of webgal::ResourceType
KindName(k) ==
    CASE k = "Background" -> <<"background">>
      [] k = "Bgm" -> <<"bgm">>
      [] k = "Vocal" -> <<"vocal">>
      [] k = "Figure" -> <<"figure">>

default_relative_path(r) == KindName(r.kind) \o <<"/">> \o r.path

relative_path(r) ==
    IF r.kind = "Figure" THEN default_relative_path(r) \o <<"/model.json">>
    ELSE default_relative_path(r)

absolute_path(r, root) == root \o <<"/">> \o default_relative_path(r)

(***************************************************************************)
(* services/resolver.rs: the pure resolution functions.                    *)
(***************************************************************************)
HasExtend(kind) == kind \in {"Background", "Bgm", "Vocal"}

get_extend(kind) ==
    IF kind = "Background" THEN RESOURCE_IMAGE_EXTEND ELSE RESOURCE_SOUND_EXTEND

resolve_custom(p, kind) ==
    IF p.t = "Url" /\ HasExtend(kind)
    THEN WgResource(kind, p.url, gen_name_from_url(p.url, get_extend(kind)))
    ELSE None

resolve_bundle(p, kind) ==
    IF p.t = "File" /\ p.hasBundle /\ HasExtend(kind)
    THEN WgResource(kind,
                    BESTDORI_ASSET_URL_ROOT \o p.bundle \o <<"_rip/">> \o p.file,
                    p.bundle \o <<"-">> \o p.file \o get_extend(kind))
    ELSE None

resolve_image(res) ==
    CASE res.kind = "Custom" -> resolve_custom(res.path, "Background")
      [] res.kind = "Bandori" -> resolve_bundle(res.path, "Background")
      [] OTHER -> None

resolve_bgm(res) ==
    CASE res.kind = "Custom" -> resolve_custom(res.path, "Bgm")
      [] res.kind = "Bandori" /\ res.path.t = "File" /\ ~res.path.hasBundle ->
            LET file == res.path.file \o RESOURCE_SOUND_EXTEND
            IN  WgResource("Bgm",
                           BESTDORI_ASSET_URL_ROOT \o lower_first_alphabetic(file)
                               \o <<"_rip/">> \o file,
                           file)
      [] OTHER -> None

resolve_se(res) ==
    CASE res.kind = "Custom" -> resolve_custom(res.path, "Vocal")
      [] res.kind = "Bandori" /\ res.path.t = "File" /\ res.path.hasBundle ->
            LET file == res.path.file \o RESOURCE_SOUND_EXTEND
            IN  WgResource("Vocal",
                           BESTDORI_ASSET_URL_ROOT \o res.path.bundle \o <<"_rip/">> \o file,
                           file)
      [] res.kind = "Common" /\ res.path.t = "File" /\ ~res.path.hasBundle ->
            LET file == res.path.file \o RESOURCE_SOUND_EXTEND
            IN  WgResource("Vocal", BESTDORI_ASSET_URL_SE \o file, file)
      [] OTHER -> None

resolve(res, kind) ==
    CASE kind = "Image" -> resolve_image(res)
      [] kind = "Bgm" -> resolve_bgm(res)
      [] kind = "Se" -> resolve_se(res)

\* the closure resolve_model hands to get_or_insert
ModelResource(costume) ==
    WgResource("Figure",
               BESTDORI_ASSET_URL_MODEL \o costume \o <<"_rip/">>
                   \o BESTDORI_ASSET_URL_MODEL_BUILDER,
               costume \o <<"/">>)

\* ResourceKey
NoDescriptor == BdResource("-", UrlPath(<<>>))
NormalKey(res, kind) == [tag |-> "Normal", res |-> res, kind |-> kind, costume |-> <<>>]
ModelKey(costume) == [tag |-> "Model", res |-> NoDescriptor, kind |-> "-", costume |-> costume]

Keys ==
    { NormalKey(d, k) : d \in Descriptors, k \in ResolveTypes }
        \cup { ModelKey(c) : c \in Costumes }

\* what the closure of a key computes
KeyResource(key) ==
    IF key.tag = "Model" THEN ModelResource(key.costume) ELSE resolve(key.res, key.kind)


(***************************************************************************)
(* State.                                                                  *)
(***************************************************************************)
VARIABLES
    \* Resolver
    resource,       \* Resolver.resource: the dedup cache, ResourceKey -> webgal::Resource
    lastEntry,      \* the ResourceEntry (or error) the last resolve call returned
    outcomes        \* per key, how many calls returned Vacant / Occupied / Err

resolverVars == <<resource, lastEntry, outcomes>>

VARIABLES
    \* Transpiler
    resources,      \* Transpiler.resources: the Vec<Arc<Resource>> handed to the download pipeline
    tmodels,        \* Transpiler.context.models: per character on stage, the model path
    terrors,        \* the script actions whose transpile returned Err, by position
    tdone,          \* script actions transpiled so far
    looks           \* per <<use, descriptor>>, what the first resolve_normal of that
                    \* descriptor for that use returned

tVars == <<resources, tmodels, terrors, tdone, looks>>

VARIABLES
    \* DefaultDownloader (pipeline/downloader.rs, the earlier downloader)
    commandq,       \* the mpsc channel of DownloadCommand: ids of dtasks, 0 is Shutdown
    dtasks,         \* every Task / Callback / Lazy command ever made, with its position
    dstate,         \* DownloaderState: task_count, bind_active_count, shutdown, error
    bind_queue,     \* BindQueue: the fetched Callback downloads waiting for their callback
    bind_queue_len, \* the AtomicUsize kept beside bind_queue
    loopw,          \* the thread of worker_loop: position, the Lazy command in hand
    binder,         \* the bind-processor thread: position, the callback in hand
    caller,         \* the thread that owns the DefaultDownloader
    dpipeline       \* DefaultPipeline (pipeline/pipeline.rs): its fields, the threads
                    \* process() spawned, what its calls returned

defaultVars == <<commandq, dtasks, dstate, bind_queue, bind_queue_len, loopw, binder, caller,
                 dpipeline>>

\* everything outside the download service: resolver, transpiler, earlier downloader
frontVars == <<resolverVars, tVars, defaultVars>>

VARIABLES
    \* DownloadPool
    jobs,           \* every DownloadCommand / DownloadTask / DownloadHandle created, by creation order
    queue,          \* the crossbeam channel: commands sent and not yet received
    workers,        \* the DownloadPoolWorkers, by index
    poolCancel,     \* DownloadPool.cancel (shared with every worker)
    poolHandles,    \* DownloadPool.handles: the workers whose JoinHandle the pool holds
    poolAlive,      \* the DownloadPool (and its channel Sender) has not been dropped
    budget          \* download() calls the pool's client has left

poolVars == <<jobs, queue, workers, poolCancel, poolHandles, poolAlive, budget>>

VARIABLES
    \* DownloadPipeline, Downloader, Live2dDownloadWorker
    batch,          \* the Vec<Arc<Resource>> handed to DownloadPipeline::new
    server,         \* the build script the asset server holds for a model
    pipe,           \* the locals of the thread that runs DownloadPipeline::run
    pstate,         \* the shared RwLock<DownloadState>
    pcancel,        \* DownloadPipeline.cancel
    hs,             \* per resource, the handle Downloader::download returned
    coords,         \* per resource, the Live2dDownloadWorker of a model
    dlAlive,        \* the Downloader still holds its Arc of the pool
    count,          \* Downloader.count, the AtomicUsize shared with every Live2dDownloadWorker
    files,          \* the paths create_and_write has written
    user            \* the owner of the Box<DownloadPipeline>

pipeVars == <<batch, server, pipe, pstate, pcancel, hs, coords, dlAlive, count, files, user>>

vars == <<resolverVars, tVars, defaultVars, poolVars, pipeVars>>

(***************************************************************************)
(* services/downloader/pool.rs: DownloadPool                               *)
(***************************************************************************)
\* new_download_task + DownloadTask::new: command, task and handle of one download
NewJob(url) ==
    [ url |-> url,
      cancel |-> FALSE,         \* the Arc<AtomicBool> shared by task and handle
      count |-> 0,              \* DownloadTask.count
      sent |-> "none",          \* what was sent on the result channel
      senderAlive |-> TRUE,     \* the command / task (and its Sender) still exists
      handle |-> "held",        \* the DownloadHandle: held, joined, panicked, dropped
      hcancel |-> FALSE ]       \* cancel() was called on the handle (also by its Drop)

\* DownloadPoolWorker::new
NewWorker ==
    [ pc |-> "check", count |-> 0, restart_count |-> 0, successes_since_restart |-> 0,
      client |-> 0, tasks |-> <<>>, cur |-> 0 ]

\* Drop for DownloadTask: the flag is set, the task (its count, its Sender) is gone
DropTask(job) == [job EXCEPT !.cancel = TRUE, !.senderAlive = FALSE, !.count = 0]

\* a variant of send that raises the flag and leaves the result for later
TaskSend_FlagFirst(job, res) == [job EXCEPT !.cancel = TRUE]

\* DownloadTask::send: the result goes on the channel of the handle; the task,
\* still in the hands of its handler, is dropped when the handler returns
TaskSend(job, res) == [job EXCEPT !.sent = res]

\* a DownloadCommand discarded with the channel: its Sender goes, the flag stays
DropCommand(job) == [job EXCEPT !.senderAlive = FALSE]

\* DownloadPoolWorker::handle_success, on the worker
handle_success(wk) ==
    [wk EXCEPT !.count = 0, !.restart_count = 0,
               !.successes_since_restart = @ + 1]

\* the decision of increment_failure_and_maybe_retry, the counts already incremented
GiveUp_OffByOne(taskCount, restartCount) ==
    taskCount > TASK_MAX_RETRIES \/ restartCount >= CLIENT_RESTART_LIMIT

GiveUp(taskCount, restartCount) ==
    taskCount >= TASK_MAX_RETRIES \/ restartCount >= CLIENT_RESTART_LIMIT

\* VecDeque::push_back of a task that is to be retried
Requeue_Lost(tasks, t) == tasks

\* a variant that retries the failed task at once
Requeue_Front(tasks, t) == <<t>> \o tasks

Requeue(tasks, t) == Append(tasks, t)

\* a variant of the restart that leaves the failure count as it is
MaybeRestart_KeepCount(wk, rebuilt) ==
    IF wk.count >= CLIENT_RESTART_FAILURE_THRESHOLD
    THEN [wk EXCEPT
            !.restart_count = IF wk.successes_since_restart = 0 THEN @ + 1 ELSE 0,
            !.successes_since_restart = 0,
            !.client = IF rebuilt THEN @ + 1 ELSE @]
    ELSE wk

\* a variant in which a failed rebuild ends the worker
MaybeRestart_Fatal(wk, rebuilt) ==
    IF wk.count >= CLIENT_RESTART_FAILURE_THRESHOLD
    THEN [wk EXCEPT
            !.restart_count = IF wk.successes_since_restart = 0 THEN @ + 1 ELSE 0,
            !.successes_since_restart = 0,
            !.client = IF rebuilt THEN @ + 1 ELSE @,
            !.pc = IF rebuilt THEN @ ELSE "exit",
            !.count = 0]
    ELSE wk

\* handle_task, after handle_response: the client restart of a worker
MaybeRestart(wk, rebuilt) ==
    IF wk.count >= CLIENT_RESTART_FAILURE_THRESHOLD
    THEN [wk EXCEPT
            !.restart_count = IF wk.successes_since_restart = 0 THEN @ + 1 ELSE 0,
            !.successes_since_restart = 0,
            !.client = IF rebuilt THEN @ + 1 ELSE @,
            !.count = 0]
    ELSE wk

Receivers == {w \in DOMAIN workers : workers[w].pc # "exit"}

\* DownloadPool::download: the command is sent; with every Receiver gone the send
\* fails and the caller panics on unwrap
CanSend == Receivers # {}

\* DownloadPoolWorker::run, the exit check at the top of the loop
WorkerCheck(w) ==
    /\ workers[w].pc = "check"
    /\ IF poolCancel
       THEN \* DownloadPoolWorker::cancel drops the local queue; the worker ends and
            \* with the last Receiver the channel discards what it still holds
            LET mine == {workers[w].tasks[i] : i \in 1..Len(workers[w].tasks)}
                last == Receivers = {w}
                left == IF last THEN {queue[i] : i \in 1..Len(queue)} ELSE {}
            IN  /\ workers' = [workers EXCEPT ![w].pc = "exit", ![w].tasks = <<>>]
                /\ jobs' = [j \in DOMAIN jobs |->
                              IF j \in mine THEN DropTask(jobs[j])
                              ELSE IF j \in left THEN DropCommand(jobs[j])
                              ELSE jobs[j]]
                /\ queue' = IF last THEN <<>> ELSE queue
       ELSE /\ workers' = [workers EXCEPT ![w].pc = "recv"]
            /\ UNCHANGED <<jobs, queue>>
    /\ UNCHANGED <<poolCancel, poolHandles, poolAlive, budget>>
    /\ UNCHANGED <<frontVars, pipeVars>>

\* a variant of the check that never finds a task cancelled
TaskCancelled_Never(job) == FALSE

\* handle_task, l.195: the cancel flag of the popped task
TaskCancelled(job) == job.cancel

\* a channel that hands the same command to every receiver
Received_Broadcast(q) == q

\* crossbeam_channel Receiver::recv / try_recv: the command received leaves the
\* channel that the workers share
Received(q) == Tail(q)

\* DownloadPoolWorker::receive, then the pop and the cancel check of handle_task,
\* up to the start of the network request
WorkerTake(w) ==
    /\ workers[w].pc = "recv"
    \* recv() on an empty local queue blocks until a command or a disconnect
    /\ workers[w].tasks = <<>> => (queue # <<>> \/ ~poolAlive)
    /\ LET got == queue # <<>>
           tasks == IF got THEN Append(workers[w].tasks, Head(queue)) ELSE workers[w].tasks
           js == jobs
       IN  /\ queue' = IF got THEN Received(queue) ELSE queue
           /\ IF tasks = <<>>
              THEN /\ workers' = [workers EXCEPT ![w].pc = "check"]
                   /\ jobs' = js
              ELSE LET t == Head(tasks)
                   IN  IF TaskCancelled(js[t])
                       THEN /\ workers' = [workers EXCEPT ![w].pc = "check",
                                                          ![w].tasks = Tail(tasks)]
                            /\ jobs' = [js EXCEPT ![t] = DropTask(@)]
                       ELSE /\ workers' = [workers EXCEPT ![w].pc = "fetch",
                                                          ![w].tasks = Tail(tasks),
                                                          ![w].cur = t]
                            /\ jobs' = js
    /\ UNCHANGED <<poolCancel, poolHandles, poolAlive, budget>>
    /\ UNCHANGED <<frontVars, pipeVars>>

\* the outcomes of one network request: a 2xx response with a readable body, a
\* transport / status / body error, a body that fails to decompress
NetOutcomes == {"ok", "fail", "decode"}

\* a variant that keeps the task for another attempt after its error was sent
DecodeFailed_Requeue(wk, t) == [wk EXCEPT !.pc = "check", !.cur = 0, !.tasks = Append(@, t)]

\* handle_response_ok, l.252-255: the body failed to decompress; the error is sent,
\* the worker's queue and counters are not touched
DecodeFailed(wk, t) == [wk EXCEPT !.pc = "drop"]

\* handle_task from the response on: handle_response and the client restart.
\* A handler that sent a result still holds the task (pc "drop"): the flag of
\* the task is stored by its Drop, after the send; the restart, which touches
\* the worker's own fields only, is taken with the handler
WorkerResponse(w, out, rebuilt) ==
    /\ workers[w].pc = "fetch"
    /\ LET t == workers[w].cur
           wk == workers[w]
       IN  CASE out = "ok" ->
                 /\ jobs' = [jobs EXCEPT ![t] = TaskSend(@, "ok")]
                 /\ workers' = [workers EXCEPT
                        ![w] = MaybeRestart([handle_success(wk) EXCEPT !.pc = "drop"], rebuilt)]
             [] out = "decode" ->
                 /\ jobs' = [jobs EXCEPT ![t] = TaskSend(@, "io")]
                 /\ workers' = [workers EXCEPT
                        ![w] = MaybeRestart(DecodeFailed(wk, t), rebuilt)]
             [] out = "fail" ->
                 \* increment_failure_and_maybe_retry
                 LET tc == jobs[t].count + 1
                     wk1 == [wk EXCEPT !.count = @ + 1, !.pc = "check", !.cur = 0]
                 IN  IF GiveUp(tc, wk.restart_count)
                     THEN /\ jobs' = [jobs EXCEPT ![t] = TaskSend(@, "reqwest")]
                          /\ workers' = [workers EXCEPT
                                ![w] = MaybeRestart([wk1 EXCEPT !.pc = "drop", !.cur = t],
                                                    rebuilt)]
                     ELSE /\ jobs' = [jobs EXCEPT ![t].count = tc]
                          /\ workers' = [workers EXCEPT
                                ![w] = MaybeRestart([wk1 EXCEPT !.tasks = Requeue(@, t)],
                                                    rebuilt)]
    /\ UNCHANGED <<queue, poolCancel, poolHandles, poolAlive, budget>>
    /\ UNCHANGED <<frontVars, pipeVars>>

\* the handler returns: the task that sent its result goes out of scope and
\* Drop for DownloadTask stores the flag (l.128-133)
WorkerDrop(w) ==
    /\ workers[w].pc = "drop"
    /\ jobs' = [jobs EXCEPT ![workers[w].cur] = DropTask(@)]
    /\ workers' = [workers EXCEPT ![w].pc = "check", ![w].cur = 0]
    /\ UNCHANGED <<queue, poolCancel, poolHandles, poolAlive, budget>>
    /\ UNCHANGED <<frontVars, pipeVars>>

\* DownloadPool::download, called by the pool's client
Download(url) ==
    /\ budget > 0
    /\ poolAlive
    /\ budget' = budget - 1
    /\ IF CanSend
       THEN /\ jobs' = Append(jobs, NewJob(url))
            /\ queue' = Append(queue, Len(jobs) + 1)
       ELSE \* the client panics: no command, no handle
            UNCHANGED <<jobs, queue>>
    /\ UNCHANGED <<workers, poolCancel, poolHandles, poolAlive>>
    /\ UNCHANGED <<frontVars, pipeVars>>

\* DownloadHandle::is_finished
HandleIsFinished(j) == jobs[j].cancel

\* DownloadHandle::cancel, on the record of its job
handle_cancel(job) == [job EXCEPT !.cancel = TRUE, !.hcancel = TRUE]

HandleCancel(j) ==
    /\ jobs[j].handle = "held"
    /\ jobs' = [jobs EXCEPT ![j] = handle_cancel(@)]
    /\ UNCHANGED <<queue, workers, poolCancel, poolHandles, poolAlive, budget>>
    /\ UNCHANGED <<frontVars, pipeVars>>

\* impl_drop_for_handle! {DownloadHandle}: the record of a handle dropped unjoined
\* a variant whose Drop does not cancel
DroppedHandle_NoCancel(job) == [job EXCEPT !.handle = "dropped"]

DroppedHandle(job) ==
    IF job.cancel THEN [job EXCEPT !.handle = "dropped"]
    ELSE [handle_cancel(job) EXCEPT !.handle = "dropped"]

HandleDrop(j) ==
    /\ jobs[j].handle = "held"
    /\ jobs' = [jobs EXCEPT ![j] = DroppedHandle(@)]
    /\ UNCHANGED <<queue, workers, poolCancel, poolHandles, poolAlive, budget>>
    /\ UNCHANGED <<frontVars, pipeVars>>

\* a variant of recv() that goes on waiting when the Sender is gone
JoinReady_ResultOnly(j) == jobs[j].sent # "none"

\* DownloadHandle::join: recv() returns once a result was sent, fails (and the
\* unwrap panics) once the Sender is gone with nothing sent, blocks otherwise
JoinReady(j) == jobs[j].sent # "none" \/ ~jobs[j].senderAlive

JoinedHandle(job) ==
    IF job.sent # "none" THEN [job EXCEPT !.handle = "joined"]
    ELSE [job EXCEPT !.handle = "panicked"]

HandleJoin(j) ==
    /\ jobs[j].handle = "held"
    /\ JoinReady(j)
    /\ jobs' = [jobs EXCEPT ![j] = JoinedHandle(@)]
    /\ UNCHANGED <<queue, workers, poolCancel, poolHandles, poolAlive, budget>>
    /\ UNCHANGED <<frontVars, pipeVars>>

\* DownloadPool::is_finished
PoolIsFinished == \E w \in poolHandles : workers[w].pc = "exit"

\* DownloadPool::cancel
PoolCancel ==
    /\ poolAlive
    /\ poolCancel' = TRUE
    /\ poolHandles' = {}
    /\ UNCHANGED <<jobs, queue, workers, poolAlive, budget>>
    /\ UNCHANGED <<frontVars, pipeVars>>

\* impl_drop_for_handle! {DownloadPool}, then the fields go: the Sender is dropped
PoolDrop ==
    /\ poolAlive
    /\ poolAlive' = FALSE
    /\ poolCancel' = (poolCancel \/ ~PoolIsFinished)
    /\ poolHandles' = {}
    /\ UNCHANGED <<jobs, queue, workers, budget>>
    /\ UNCHANGED <<frontVars, pipeVars>>

\* DownloadPool::new with n workers, and a client that will call download() b times
InitPoolOf(n, b) ==
    /\ jobs = <<>>
    /\ queue = <<>>
    /\ workers = [w \in 1..n |-> NewWorker]
    /\ poolCancel = FALSE
    /\ poolHandles = 1..n
    /\ poolAlive = TRUE
    /\ budget = b

\* no pool is built
InitNoPool ==
    /\ jobs = <<>>
    /\ queue = <<>>
    /\ workers = << >>
    /\ poolCancel = FALSE
    /\ poolHandles = {}
    /\ poolAlive = FALSE
    /\ budget = 0

WorkerStep(w) ==
    \/ WorkerCheck(w)
    \/ WorkerTake(w)
    \/ \E out \in NetOutcomes, rebuilt \in BOOLEAN : WorkerResponse(w, out, rebuilt)
    \/ WorkerDrop(w)

(***************************************************************************)
(* models/bestdori/live2d.rs, models/webgal/live2d.rs: the build script of *)
(* a Live2D model and the resources derived from it.                       *)
(***************************************************************************)
WEBGAL_LIVE2D_CONFIG == <<"model.json">>
WEBGAL_LIVE2D_MODEL == <<"model.moc">>
WEBGAL_LIVE2D_PHYSICS == <<"physics.json">>
WEBGAL_LIVE2D_TEXTURES == <<"textures/">>
WEBGAL_LIVE2D_MOTIONS == <<"motions/">>
WEBGAL_LIVE2D_EXPRESSIONS == <<"expressions/">>

Live2dPath(b, f) == [bundle |-> b, file |-> f]

\* Live2dPath::path
Live2dPath_path(p) == p.bundle \o <<"_rip/">> \o p.file

\* Live2dPath::url
Live2dPath_url(p) == BESTDORI_ASSET_URL_ROOT \o Live2dPath_path(p)

\* str::strip_suffix(..).unwrap_or(..), the suffix being one token
strip_suffix(s, suffix) ==
    IF s # <<>> /\ s[Len(s)] = suffix THEN SubSeq(s, 1, Len(s) - 1) ELSE s

default_model_config_path(root) == root \o WEBGAL_LIVE2D_CONFIG

\* webgal::Model::from_bestdori_model: the (url, relative path) list
from_bestdori_model(model) ==
    << [url |-> Live2dPath_url(model.model), path |-> WEBGAL_LIVE2D_MODEL],
       [url |-> Live2dPath_url(model.physics), path |-> WEBGAL_LIVE2D_PHYSICS] >>
    \o [i \in 1..Len(model.textures) |->
            [url |-> Live2dPath_url(model.textures[i]),
             path |-> WEBGAL_LIVE2D_TEXTURES \o Live2dPath_path(model.textures[i])]]
    \o [i \in 1..Len(model.motions) |->
            [url |-> Live2dPath_url(model.motions[i]),
             path |-> WEBGAL_LIVE2D_MOTIONS
                        \o strip_suffix(model.motions[i].file, ".mtn.bytes") \o <<".mtn">>]]
    \o [i \in 1..Len(model.expessions) |->
            [url |-> Live2dPath_url(model.expessions[i]),
             path |-> WEBGAL_LIVE2D_EXPRESSIONS \o model.expessions[i].file]]

\* the files a build script may name
TextureFile(i) == [k \in 1..i |-> "t"]
MotionFile(i) == [k \in 1..i |-> "m"] \o <<".mtn.bytes">>
ExpressionFile(i) == [k \in 1..i |-> "e"] \o <<".exp.json">>

\* bestdori::Model with nt textures, nm motions and ne expressions
BuildScript(nt, nm, ne) ==
    [ model |-> Live2dPath(<<"c">>, <<"m.moc">>),
      physics |-> Live2dPath(<<"c">>, <<"p.json">>),
      textures |-> [i \in 1..nt |-> Live2dPath(<<"c">>, TextureFile(i))],
      motions |-> [i \in 1..nm |-> Live2dPath(<<"c">>, MotionFile(i))],
      expessions |-> [i \in 1..ne |-> Live2dPath(<<"c">>, ExpressionFile(i))] ]

\* what the server answers for a build script url: bytes that
\* bestdori::Model::from_slice parses into `model`, or rejects
Served(parses, model) == [parses |-> parses, model |-> model]

(***************************************************************************)
(* error.rs: the results that travel through handles                       *)
(***************************************************************************)
NoResult == [t |-> "None", url |-> <<>>, path |-> <<>>, error |-> "-"]
OkResult == [t |-> "Ok", url |-> <<>>, path |-> <<>>, error |-> "-"]
SerdeJsonError == [t |-> "SerdeJson", url |-> <<>>, path |-> <<>>, error |-> "-"]

\* Error::Download(DownloadError { url, path, error })
DownloadError(url, path, error) == [t |-> "Download", url |-> url, path |-> path, error |-> error]

IsErr(r) == r.t \in {"Download", "SerdeJson"}

(***************************************************************************)
(* services/downloader/service.rs and services/pipeline/download.rs        *)
(***************************************************************************)
\* Downloader.root
Root == <<"r">>

\* the handle slot of a resource before Downloader::download is called on it
NoHandle == [kind |-> "-", job |-> 0, st |-> "none", result |-> NoResult]

\* CommonDownloadHandle { url, path, handle: Some(handle) }
CommonDownloadHandle(j) == [kind |-> "Common", job |-> j, st |-> "held", result |-> NoResult]

\* Live2dDownloadHandle { handle: Some(handle), cancel, receiver }
Live2dDownloadHandle == [kind |-> "Live2d", job |-> 0, st |-> "held", result |-> NoResult]

\* the slot of a Live2dDownloadWorker that was never created
NoWorker ==
    [ pc |-> "idle", cancel |-> FALSE, job |-> 0, idx |-> 1, derived |-> <<>>,
      sent |-> NoResult, attempted |-> {}, late |-> FALSE ]

\* Live2dDownloadWorker::new, the thread spawned and not yet scheduled
Live2dDownloadWorker == [NoWorker EXCEPT !.pc = "start"]

\* DownloadState { total: res.len(), ..Default::default() }
NewDownloadState_NoTotal(res) == [success |-> 0, failed |-> 0, total |-> 0]

NewDownloadState(res) == [success |-> 0, failed |-> 0, total |-> Len(res)]

\* the DownloadState a reader clones out of the lock: `done` counts the handles
\* the thread has tallied, successes and failures alike
DownloadState(st) == [done |-> st.success + st.failed, total |-> st.total]

\* no pipeline is built
InitNoPipe ==
    /\ batch = <<>>
    /\ server = Served(FALSE, BuildScript(0, 0, 0))
    /\ pipe = [pc |-> "none", next |-> 1, handles |-> <<>>, doneList |-> <<>>,
               success |-> 0, failed |-> 0, errors |-> <<>>]
    /\ pstate = NewDownloadState(<<>>)
    /\ pcancel = FALSE
    /\ hs = <<>>
    /\ coords = <<>>
    /\ dlAlive = FALSE
    /\ count = 0
    /\ files = {}
    /\ user = [handle |-> "none", phase |-> "none", snap |-> DownloadState(NewDownloadState(<<>>)),
               last |-> DownloadState(NewDownloadState(<<>>)), result |-> <<>>]

\* DownloadPipeline::new over `res`: the fields of the pipeline, of its thread
\* and of its Downloader
NewPipeline(res) ==
    [ pipe |-> [pc |-> IF res = <<>> THEN "check" ELSE "submit", next |-> 1,
                handles |-> <<>>, doneList |-> <<>>,
                success |-> 0, failed |-> 0, errors |-> <<>>],
      pstate |-> NewDownloadState(res),
      hs |-> [i \in 1..Len(res) |-> NoHandle],
      coords |-> [i \in 1..Len(res) |-> NoWorker],
      user |-> [handle |-> "held", phase |-> "polling",
                snap |-> DownloadState(NewDownloadState(res)),
                last |-> DownloadState(NewDownloadState(res)), result |-> <<>>] ]

\* a pipeline built over `res`, the server holding `srv`
InitPipeOf(res, srv) ==
    /\ batch = res
    /\ server = srv
    /\ pipe = NewPipeline(res).pipe
    /\ pstate = NewPipeline(res).pstate
    /\ pcancel = FALSE
    /\ hs = NewPipeline(res).hs
    /\ coords = NewPipeline(res).coords
    /\ dlAlive = TRUE
    /\ count = 0
    /\ files = {}
    /\ user = NewPipeline(res).user

\* the three fields of the DownloadPool that its owners change
PoolFlags == [cancel |-> poolCancel, handles |-> poolHandles, alive |-> poolAlive]

SetPool(pf) ==
    /\ poolCancel' = pf.cancel
    /\ poolHandles' = pf.handles
    /\ poolAlive' = pf.alive

\* DownloadPool::is_finished / cancel / Drop on those fields
pool_is_finished(pf) == \E w \in pf.handles : workers[w].pc = "exit"

\* a variant of cancel that flips the flag
pool_cancel_Flip(pf) == [pf EXCEPT !.cancel = ~@, !.handles = {}]

pool_cancel(pf) == [pf EXCEPT !.cancel = TRUE, !.handles = {}]

pool_drop(pf) ==
    [(IF pool_is_finished(pf) THEN pf ELSE pool_cancel(pf)) EXCEPT !.alive = FALSE, !.handles = {}]

\* the owners of an Arc<Mutex<DownloadPool>>: the Downloader (0) and every
\* Live2dDownloadWorker that exists
Holders(cs, dl) ==
    (IF dl THEN {0} ELSE {}) \cup {i \in DOMAIN cs : cs[i].pc \notin {"idle", "ended", "panicked"}}

\* an Arc of the pool is dropped: the last one drops the pool
arc_release(pf, holders) == IF holders = {} /\ pf.alive THEN pool_drop(pf) ELSE pf

\* Drop for Downloader (impl_drop_for_handle!): cancel unless finished
downloader_drop(pf) == IF pool_is_finished(pf) THEN pf ELSE pool_cancel(pf)

\* Downloader::cancel on d = (the pool's fields, whether self.pool is Some): the
\* pool is taken and cancelled, the Downloader's Arc is released
downloader_cancel(d, cs) ==
    IF d.held
    THEN [pool |-> arc_release(pool_cancel(d.pool), Holders(cs, FALSE)), held |-> FALSE]
    ELSE d

\* CommonDownloadHandle::cancel, on the record of its job: the DownloadHandle is
\* taken, cancelled and dropped; a second call finds None
common_cancel(job) ==
    IF job.handle = "held" THEN [handle_cancel(job) EXCEPT !.handle = "dropped"] ELSE job

\* Live2dDownloadHandle::cancel, on the record of its worker (the shared flag)
live2d_cancel(wk) == [wk EXCEPT !.cancel = TRUE]

\* a variant of cancel that inverts the flag it finds
pipeline_cancel_Toggle(p) == [p EXCEPT !.cancel = ~@, !.handle = "none"]

\* DownloadPipeline::cancel on p = (the cancel flag, the thread's JoinHandle)
pipeline_cancel(p) == [p EXCEPT !.cancel = TRUE, !.handle = "none"]

\* AtomicUsize::fetch_sub: the subtraction wraps modulo 2^64; a value of the counter
\* is written by the representative of its residue that is nearest to 0, so that
\* -1 stands for usize::MAX
fetch_sub(n, k) == n - k

\* Drop for Live2dDownloadWorker, with what it sent (if anything) before
DroppedWorker(wk, pc, sent) == [wk EXCEPT !.pc = pc, !.cancel = TRUE, !.sent = sent, !.job = 0]

\* the coordinator thread of resource c ends: the worker is dropped, its Arc released
EndWorker(c, pc, sent) ==
    LET cs == [coords EXCEPT ![c] = DroppedWorker(@, pc, sent)]
    IN  /\ coords' = cs
        /\ count' = fetch_sub(count, 1)
        /\ SetPool(arc_release(PoolFlags, Holders(cs, dlAlive)))

\* self.pool.lock().unwrap().download(url) in Live2dDownloadWorker::run; a send
\* on a channel without Receiver panics the coordinator (the lock it poisons is
\* only ever taken again by coordinators, which then panic at the same place)
WorkerDownload(c, url, pc, attempted) ==
    IF CanSend
    THEN /\ jobs' = Append(jobs, NewJob(url))
         /\ queue' = Append(queue, Len(jobs) + 1)
         /\ coords' = [coords EXCEPT ![c].pc = pc, ![c].job = Len(jobs) + 1,
                                     ![c].attempted = attempted,
                                     ![c].late = @ \/ coords[c].cancel]
         /\ UNCHANGED <<poolCancel, poolHandles, poolAlive, count>>
    ELSE /\ EndWorker(c, "panicked", NoResult)
         /\ UNCHANGED <<jobs, queue>>

\* Live2dDownloadWorker::run, l.134: the build script is requested
CoordStart(c) ==
    /\ coords[c].pc = "start"
    /\ WorkerDownload(c, batch[c].url, "manifest", {})
    /\ UNCHANGED <<workers, budget, batch, server, pipe, pstate, pcancel, hs, dlAlive, files, user>>
    /\ UNCHANGED frontVars

\* a variant in which a failed write of the model configuration is passed over
ManifestChain_WriteIgnored(sent, parses, writeOk, url, path) ==
    CASE sent = "none" -> [end |-> "panicked", send |-> NoResult, wrote |-> FALSE]
      [] sent = "ok" /\ ~parses -> [end |-> "ended", send |-> SerdeJsonError, wrote |-> FALSE]
      [] sent = "ok" /\ parses -> [end |-> "no", send |-> NoResult, wrote |-> writeOk]
      [] OTHER -> [end |-> "ended", send |-> DownloadError(url, path, sent), wrote |-> FALSE]

\* Live2dDownloadWorker::run, l.135-152: the chain join().map_err().and_then(
\* from_slice).and_then(convert, create_and_write) inside unwrap_or_exit!, on the
\* result the pool sent: how the thread goes on (`end`), what it sends before it
\* returns, and whether the model configuration was written
ManifestChain(sent, parses, writeOk, url, path) ==
    CASE sent = "none" -> [end |-> "panicked", send |-> NoResult, wrote |-> FALSE]
      [] sent = "ok" /\ ~parses -> [end |-> "ended", send |-> SerdeJsonError, wrote |-> FALSE]
      [] sent = "ok" /\ parses /\ ~writeOk ->
            [end |-> "ended", send |-> DownloadError(url, path, "io"), wrote |-> FALSE]
      [] sent = "ok" /\ parses /\ writeOk -> [end |-> "no", send |-> NoResult, wrote |-> TRUE]
      [] OTHER -> [end |-> "ended", send |-> DownloadError(url, path, sent), wrote |-> FALSE]

\* Live2dDownloadWorker::run, l.135-152: the build script is joined, parsed,
\* converted, and the model configuration written
ManifestJoined(c, r) ==
    /\ jobs' = [jobs EXCEPT ![coords[c].job] = JoinedHandle(@)]
    /\ files' = IF r.wrote
                THEN files \cup {default_model_config_path(absolute_path(batch[c], Root))}
                ELSE files
    /\ IF r.end = "no"
       THEN /\ coords' = [coords EXCEPT ![c].pc = "loop", ![c].job = 0, ![c].idx = 1,
                                        ![c].derived = from_bestdori_model(server.model)]
            /\ UNCHANGED <<poolCancel, poolHandles, poolAlive, count>>
       ELSE EndWorker(c, r.end, r.send)

CoordManifest(c, writeOk) ==
    /\ coords[c].pc = "manifest"
    /\ JoinReady(coords[c].job)
    /\ ManifestJoined(c, ManifestChain(jobs[coords[c].job].sent, server.parses, writeOk,
                                       batch[c].url, absolute_path(batch[c], Root)))
    /\ UNCHANGED <<queue, workers, budget, batch, server, pipe, pstate, pcancel, hs, dlAlive, user>>
    /\ UNCHANGED frontVars

\* Live2dDownloadWorker::run, l.155-159: the next derived resource, the cancel check
CoordLoop(c) ==
    /\ coords[c].pc = "loop"
    /\ IF coords[c].idx > Len(coords[c].derived) \/ coords[c].cancel
       THEN EndWorker(c, "ended", NoResult)
       ELSE /\ coords' = [coords EXCEPT ![c].pc = "submit"]
            /\ UNCHANGED <<poolCancel, poolHandles, poolAlive, count>>
    /\ UNCHANGED <<jobs, queue, workers, budget, batch, server, pipe, pstate, pcancel, hs,
                   dlAlive, files, user>>
    /\ UNCHANGED frontVars

\* Live2dDownloadWorker::run, l.162: the derived resource is requested
CoordSubmit(c) ==
    /\ coords[c].pc = "submit"
    /\ WorkerDownload(c, coords[c].derived[coords[c].idx].url, "derived",
                      coords[c].attempted \cup {coords[c].idx})
    /\ UNCHANGED <<workers, budget, batch, server, pipe, pstate, pcancel, hs, dlAlive, files, user>>
    /\ UNCHANGED frontVars

\* Live2dDownloadWorker::run, l.163-167: the derived resource is joined and written
CoordDerived(c, writeOk) ==
    /\ coords[c].pc = "derived"
    /\ JoinReady(coords[c].job)
    /\ LET j == coords[c].job
           url == batch[c].url
           path == absolute_path(batch[c], Root)
       IN  /\ jobs' = [jobs EXCEPT ![j] = JoinedHandle(@)]
           /\ CASE jobs[j].sent = "none" ->
                     EndWorker(c, "panicked", NoResult) /\ UNCHANGED files
                [] jobs[j].sent = "ok" /\ ~writeOk ->
                     EndWorker(c, "ended", DownloadError(url, path, "io")) /\ UNCHANGED files
                [] jobs[j].sent = "ok" /\ writeOk ->
                     /\ files' = files \cup {coords[c].derived[coords[c].idx].path}
                     /\ coords' = [coords EXCEPT ![c].pc = "loop", ![c].job = 0,
                                                 ![c].idx = @ + 1]
                     /\ UNCHANGED <<poolCancel, poolHandles, poolAlive, count>>
                [] OTHER ->
                     EndWorker(c, "ended", DownloadError(url, path, jobs[j].sent))
                        /\ UNCHANGED files
    /\ UNCHANGED <<queue, workers, budget, batch, server, pipe, pstate, pcancel, hs, dlAlive, user>>
    /\ UNCHANGED frontVars

\* the thread of one Live2dDownloadWorker
CoordStep(c) ==
    \/ CoordStart(c)
    \/ \E writeOk \in BOOLEAN : CoordManifest(c, writeOk)
    \/ CoordLoop(c)
    \/ CoordSubmit(c)
    \/ \E writeOk \in BOOLEAN : CoordDerived(c, writeOk)

\* a handle that never reports finished
handle_is_finished_Never(i) == FALSE

\* Handle::is_finished of the handle of resource i
\* (CommonDownloadHandle::is_finished / Live2dDownloadHandle::is_finished)
handle_is_finished(i) ==
    IF hs[i].kind = "Live2d" THEN coords[i].cancel
    ELSE hs[i].st # "held" \/ HandleIsFinished(hs[i].job)

\* CommonDownloadHandle::join on the result the pool sent, the file written or not
CommonJoin_Swallowed(i, sent, writeOk) == OkResult

CommonJoin(i, sent, writeOk) ==
    IF sent = "ok"
    THEN IF writeOk THEN OkResult
         ELSE DownloadError(batch[i].url, absolute_path(batch[i], Root), "io")
    ELSE DownloadError(batch[i].url, absolute_path(batch[i], Root), sent)

\* Live2dDownloadHandle::join: the thread is joined, the receiver never read
Live2dJoin(i) == OkResult

\* a removal that takes the last element whatever the position
swap_remove_Last(s, k) == SubSeq(s, 1, Len(s) - 1)

\* Vec::swap_remove at position k
swap_remove(s, k) ==
    IF k = Len(s) THEN SubSeq(s, 1, Len(s) - 1)
    ELSE [SubSeq(s, 1, Len(s) - 1) EXCEPT ![k] = s[Len(s)]]

\* the positions of the finished handles, last first (l.87-91, l.97)
RECURSIVE FinishedRev(_, _)
FinishedRev(handles, n) ==
    IF n = 0 THEN <<>>
    ELSE (IF handle_is_finished(handles[n]) THEN <<n>> ELSE <<>>) \o FinishedRev(handles, n - 1)

\* the locals of DownloadPipeline::run go out of scope, by return or by unwinding:
\* the handles left in the Vec are dropped (impl_drop_for_handle!), then the Downloader
LeaveRun(pc, left) ==
    LET lset == {left[k] : k \in 1..Len(left)}
        cs == [i \in DOMAIN coords |->
                  IF i \in lset /\ hs[i].kind = "Live2d"
                  THEN live2d_cancel(coords[i]) ELSE coords[i]]
    IN  /\ pipe' = [pipe EXCEPT !.pc = pc, !.handles = <<>>, !.doneList = <<>>]
        /\ hs' = [i \in DOMAIN hs |->
                     IF i \in lset THEN [hs[i] EXCEPT !.st = "dropped"] ELSE hs[i]]
        /\ jobs' = [j \in DOMAIN jobs |->
                       IF \E i \in lset : hs[i].kind = "Common" /\ hs[i].job = j
                                            /\ jobs[j].handle = "held"
                       THEN DroppedHandle(jobs[j]) ELSE jobs[j]]
        /\ coords' = cs
        /\ dlAlive' = FALSE
        /\ UNCHANGED count
        /\ SetPool(arc_release(downloader_drop(PoolFlags), Holders(cs, FALSE)))

\* DownloadPipeline::run, l.75-78: Downloader::download on the next resource
PipeSubmit ==
    /\ pipe.pc = "submit"
    /\ LET i == pipe.next
           pc == IF i = Len(batch) THEN "check" ELSE "submit"
       IN  IF batch[i].kind = "Figure"
           THEN \* download_model
                /\ hs' = [hs EXCEPT ![i] = Live2dDownloadHandle]
                /\ coords' = [coords EXCEPT ![i] = Live2dDownloadWorker]
                /\ pipe' = [pipe EXCEPT !.next = i + 1, !.pc = pc, !.handles = Append(@, i)]
                /\ UNCHANGED <<jobs, queue, poolCancel, poolHandles, poolAlive, dlAlive, count>>
           ELSE \* download_normal
                IF CanSend
                THEN /\ jobs' = Append(jobs, NewJob(batch[i].url))
                     /\ queue' = Append(queue, Len(jobs) + 1)
                     /\ hs' = [hs EXCEPT ![i] = CommonDownloadHandle(Len(jobs) + 1)]
                     /\ pipe' = [pipe EXCEPT !.next = i + 1, !.pc = pc,
                                             !.handles = Append(@, i)]
                     /\ UNCHANGED <<coords, poolCancel, poolHandles, poolAlive, dlAlive, count>>
                ELSE /\ LeaveRun("panicked", pipe.handles)
                     /\ UNCHANGED queue
    /\ UNCHANGED <<workers, budget, batch, server, pstate, pcancel, files, user>>
    /\ UNCHANGED frontVars

\* check(), l.82-94: nothing left ends the loop (l.124-125), else the finished
\* handles are listed
PipeCheck ==
    /\ pipe.pc = "check"
    /\ IF pipe.handles = <<>>
       THEN /\ pcancel' = TRUE
            /\ LeaveRun("done", <<>>)
       ELSE LET done == FinishedRev(pipe.handles, Len(pipe.handles))
            IN  /\ pipe' = [pipe EXCEPT !.pc = IF done = <<>> THEN "wsuccess" ELSE "join",
                                        !.doneList = done, !.success = 0, !.failed = 0]
                /\ UNCHANGED <<jobs, hs, coords, dlAlive, count, poolCancel, poolHandles, poolAlive,
                               pcancel>>
    /\ UNCHANGED <<queue, workers, budget, batch, server, pstate, files, user>>
    /\ UNCHANGED frontVars

\* a variant of check() that returns without adding its tallies to the state
AfterJoin_NoUpdate(left) == IF left = 1 THEN "poll" ELSE "join"

\* check(), l.97-111: where the thread goes after a join, `left` finished handles
\* still listed, this one included: on to the next, or out of the for loop to the
\* count updates
AfterJoin(left) == IF left = 1 THEN "wsuccess" ELSE "join"

\* check(), l.97-107: one finished handle is removed and joined
PipeJoin(writeOk) ==
    /\ pipe.pc = "join"
    /\ LET k == Head(pipe.doneList)
           i == pipe.handles[k]
           rest == swap_remove(pipe.handles, k)
           pc == AfterJoin(Len(pipe.doneList))
           tally(r) ==
               [pipe EXCEPT !.pc = pc, !.handles = rest, !.doneList = Tail(@),
                            !.success = IF IsErr(r) THEN @ ELSE @ + 1,
                            !.failed = IF IsErr(r) THEN @ + 1 ELSE @,
                            !.errors = IF IsErr(r) THEN Append(@, r) ELSE @]
       IN  IF hs[i].kind = "Live2d"
           THEN \* JoinHandle::join blocks until the coordinator thread has ended
                /\ coords[i].pc \in {"ended", "panicked"}
                /\ hs' = [hs EXCEPT ![i].st = "joined", ![i].result = Live2dJoin(i)]
                /\ pipe' = tally(Live2dJoin(i))
                /\ UNCHANGED <<jobs, coords, dlAlive, count, poolCancel, poolHandles, poolAlive, files>>
           ELSE LET j == hs[i].job
                IN  /\ JoinReady(j)
                    /\ IF jobs[j].sent = "none"
                       THEN \* recv().unwrap() panics, the handle goes with the call
                            /\ LeaveRun("panicked", rest)
                            /\ UNCHANGED files
                       ELSE LET r == CommonJoin(i, jobs[j].sent, writeOk)
                            IN  /\ jobs' = [jobs EXCEPT ![j] = JoinedHandle(@)]
                                /\ hs' = [hs EXCEPT ![i].st = "joined", ![i].result = r]
                                /\ pipe' = tally(r)
                                /\ files' = IF r = OkResult
                                            THEN files \cup {absolute_path(batch[i], Root)}
                                            ELSE files
                                /\ UNCHANGED <<coords, dlAlive, count, poolCancel, poolHandles,
                                               poolAlive>>
    /\ UNCHANGED <<queue, workers, budget, batch, server, pstate, pcancel, user>>
    /\ UNCHANGED frontVars

\* check(), l.110: the first write under the lock
PipeWriteSuccess ==
    /\ pipe.pc = "wsuccess"
    /\ pstate' = [pstate EXCEPT !.success = @ + pipe.success]
    /\ pipe' = [pipe EXCEPT !.pc = "wfailed"]
    /\ UNCHANGED <<batch, server, pcancel, hs, coords, dlAlive, count, files, user>>
    /\ UNCHANGED <<frontVars, poolVars>>

\* check(), l.111: the second write under the lock
PipeWriteFailed ==
    /\ pipe.pc = "wfailed"
    /\ pstate' = [pstate EXCEPT !.failed = @ + pipe.failed]
    /\ pipe' = [pipe EXCEPT !.pc = "poll"]
    /\ UNCHANGED <<batch, server, pcancel, hs, coords, dlAlive, count, files, user>>
    /\ UNCHANGED <<frontVars, poolVars>>

\* the loop body, l.119-121: false_or_panic! {cancel}, then the sleep
PipePoll ==
    /\ pipe.pc = "poll"
    /\ IF pcancel
       THEN LeaveRun("panicked", pipe.handles)
       ELSE /\ pipe' = [pipe EXCEPT !.pc = "check"]
            /\ UNCHANGED <<jobs, hs, coords, dlAlive, count, poolCancel, poolHandles, poolAlive>>
    /\ UNCHANGED <<queue, workers, budget, batch, server, pstate, pcancel, files, user>>
    /\ UNCHANGED frontVars

\* the thread spawned by DownloadPipeline::new
PipeStep ==
    \/ PipeSubmit
    \/ PipeCheck
    \/ \E writeOk \in BOOLEAN : PipeJoin(writeOk)
    \/ PipeWriteSuccess
    \/ PipeWriteFailed
    \/ PipePoll

\* the Downloader, as the value its cancel() acts on
TheDownloader == [pool |-> PoolFlags, held |-> dlAlive]

\* Downloader::cancel, called by the owner of the Downloader between two of its
\* own steps; the owner then keeps the Downloader and the handles it holds
DownloaderCancel ==
    /\ dlAlive
    /\ pipe.pc \in {"submit", "check", "poll"}
    /\ dlAlive' = downloader_cancel(TheDownloader, coords).held
    /\ SetPool(downloader_cancel(TheDownloader, coords).pool)
    /\ pipe' = [pipe EXCEPT !.pc = "held"]
    /\ UNCHANGED <<jobs, queue, workers, budget>>
    /\ UNCHANGED <<batch, server, pstate, pcancel, hs, coords, count, files, user>>
    /\ UNCHANGED frontVars

\* Downloader::join, called by the owner of the Downloader (here the thread of
\* run(), at the point where every handle it was given has been joined)
DownloaderJoin ==
    /\ dlAlive
    /\ CASE pipe.pc = "check" /\ pipe.handles = <<>> ->
               \* the call
               /\ pipe' = [pipe EXCEPT !.pc = "dlwait"]
               /\ UNCHANGED <<dlAlive, poolCancel, poolHandles, poolAlive>>
         [] pipe.pc = "dlwait" ->
               \* l.284-286: the loop ends when the counter reads 0; l.289-290:
               \* Arc::try_unwrap fails while a coordinator holds the pool, and the
               \* unwrap panics
               /\ count = 0
               /\ IF Holders(coords, FALSE) # {}
                  THEN /\ pipe' = [pipe EXCEPT !.pc = "panicked"]
                       /\ dlAlive' = FALSE
                  ELSE /\ pipe' = [pipe EXCEPT !.pc = "dlpool"]
                       /\ UNCHANGED dlAlive
               /\ UNCHANGED <<poolCancel, poolHandles, poolAlive>>
         [] pipe.pc = "dlpool" ->
               \* DownloadPool::join, pool.rs:381-385: every worker thread is joined,
               \* then the pool is dropped
               /\ \A w \in poolHandles : workers[w].pc = "exit"
               /\ pipe' = [pipe EXCEPT !.pc = "done"]
               /\ dlAlive' = FALSE
               /\ SetPool(pool_drop([PoolFlags EXCEPT !.handles = {}]))
         [] OTHER -> FALSE
    /\ UNCHANGED <<jobs, queue, workers, budget>>
    /\ UNCHANGED <<batch, server, pstate, pcancel, hs, coords, count, files, user>>
    /\ UNCHANGED frontVars

\* DownloadPipeline::state
PipelineState ==
    /\ user.phase = "polling"
    /\ user' = [user EXCEPT !.last = DownloadState(pstate)]
    /\ UNCHANGED <<batch, server, pipe, pstate, pcancel, hs, coords, dlAlive, count, files>>
    /\ UNCHANGED <<frontVars, poolVars>>

\* DownloadPipeline::is_finished
PipelineIsFinished == pcancel

\* DownloadPipeline::cancel
PipelineCancel ==
    /\ user.phase = "polling"
    /\ pcancel' = pipeline_cancel([cancel |-> pcancel, handle |-> user.handle]).cancel
    /\ user' = [user EXCEPT
                   !.handle = pipeline_cancel([cancel |-> pcancel, handle |-> @]).handle]
    /\ UNCHANGED <<batch, server, pipe, pstate, hs, coords, dlAlive, count, files>>
    /\ UNCHANGED <<frontVars, poolVars>>

\* DownloadPipeline::join, l.136 and the take().unwrap() of l.137
PipelineJoinBegin ==
    /\ user.phase = "polling"
    /\ IF user.handle = "held"
       THEN /\ user' = [user EXCEPT !.phase = "joining", !.handle = "taken",
                                    !.snap = DownloadState(pstate)]
            /\ UNCHANGED pcancel
       ELSE \* unwrap on None: the caller panics, the pipeline is dropped
            /\ user' = [user EXCEPT !.phase = "panicked", !.snap = DownloadState(pstate)]
            /\ pcancel' = TRUE
    /\ UNCHANGED <<batch, server, pipe, pstate, hs, coords, dlAlive, count, files>>
    /\ UNCHANGED <<frontVars, poolVars>>

\* DownloadPipeline::join, l.137-139: the thread is joined, the result built
PipelineJoinEnd ==
    /\ user.phase = "joining"
    /\ pipe.pc \in {"done", "panicked"}
    /\ IF pipe.pc = "done"
       THEN user' = [user EXCEPT !.phase = "joined",
                                 !.result = <<[state |-> user.snap, errors |-> pipe.errors]>>]
       ELSE user' = [user EXCEPT !.phase = "panicked"]
    /\ pcancel' = TRUE
    /\ UNCHANGED <<batch, server, pipe, pstate, hs, coords, dlAlive, count, files>>
    /\ UNCHANGED <<frontVars, poolVars>>


(***************************************************************************)
(* services/resolver.rs: Resolver                                          *)
(***************************************************************************)
\* error.rs: ResolveError, the category and the descriptor of the failed call
ResolveError(kind, res) == [kind |-> kind, resource |-> res]
NoError == ResolveError("-", NoDescriptor)

NoEntry == [outcome |-> "None", key |-> ModelKey(<<>>), res |-> None, err |-> NoError]

\* HashMap::insert on a vacant entry
\* a variant in which every key ends up holding the newest resource
CacheInsert_Shared(cache, key, r) == [k \in DOMAIN cache \cup {key} |-> r]

CacheInsert(cache, key, r) ==
    [k \in DOMAIN cache \cup {key} |-> IF k = key THEN r ELSE cache[k]]

\* a variant in which a failed call leaves an entry behind
FailedEntry_Cached(cache, key) ==
    [outcome |-> "Err", res |-> None, err |-> ResolveError(key.kind, key.res),
     cache |-> CacheInsert(cache, key, None)]

\* the closure failed: `call()?` returns its ResolveError out of get_or_insert
\* before v.insert is reached
FailedEntry(cache, key) ==
    [outcome |-> "Err", res |-> None, err |-> ResolveError(key.kind, key.res), cache |-> cache]

\* a variant that returns the new resource without storing it
get_or_insert_NoStore(cache, key) ==
    IF key \in DOMAIN cache
    THEN [outcome |-> "Occupied", res |-> cache[key], err |-> NoError, cache |-> cache]
    ELSE LET r == KeyResource(key)
         IN  IF r = None
             THEN FailedEntry(cache, key)
             ELSE [outcome |-> "Vacant", res |-> r, err |-> NoError, cache |-> cache]

\* Resolver::get_or_insert: the entry returned and the cache afterwards
get_or_insert(cache, key) ==
    IF key \in DOMAIN cache
    THEN [outcome |-> "Occupied", res |-> cache[key], err |-> NoError, cache |-> cache]
    ELSE LET r == KeyResource(key)
         IN  IF r = None
             THEN FailedEntry(cache, key)
             ELSE [outcome |-> "Vacant", res |-> r, err |-> NoError,
                   cache |-> CacheInsert(cache, key, r)]

\* bookkeeping of one resolve call on `key`
RecordOutcome(key, got) ==
    /\ resource' = got.cache
    /\ lastEntry' = [outcome |-> got.outcome, key |-> key, res |-> got.res, err |-> got.err]
    /\ outcomes' = [outcomes EXCEPT ![key][got.outcome] = @ + 1]
    /\ UNCHANGED <<poolVars, pipeVars, defaultVars>>

CallsMade == 
    LET RECURSIVE Sum(_)
        Sum(S) == IF S = {} THEN 0
                  ELSE LET k == CHOOSE x \in S : TRUE
                       IN  outcomes[k]["Vacant"] + outcomes[k]["Occupied"]
                             + outcomes[k]["Err"] + Sum(S \ {k})
    IN  Sum(Keys)

\* Resolve::resolve_normal
resolve_normal(res, kind) ==
    /\ CallsMade < MaxCalls
    /\ RecordOutcome(NormalKey(res, kind), get_or_insert(resource, NormalKey(res, kind)))
    /\ UNCHANGED tVars

\* Resolve::resolve_model
resolve_model(costume) ==
    /\ CallsMade < MaxCalls
    /\ RecordOutcome(ModelKey(costume), get_or_insert(resource, ModelKey(costume)))
    /\ UNCHANGED tVars

InitResolver ==
    /\ resource = << >>
    /\ lastEntry = NoEntry
    /\ outcomes = [k \in Keys |-> [o \in {"Vacant", "Occupied", "Err"} |-> 0]]

\* Transpiler::new
InitTranspiler ==
    /\ resources = <<>>
    /\ tmodels = <<>>
    /\ terrors = {}
    /\ tdone = 0
    /\ looks = << >>

NextResolver ==
    \/ \E res \in Descriptors, kind \in ResolveTypes : resolve_normal(res, kind)
    \/ \E costume \in Costumes : resolve_model(costume)

(***************************************************************************)
(* services/transpiler.rs: Transpiler. The scenes it writes are left out;  *)
(* what is kept is what decides the resource list.                         *)
(***************************************************************************)
\* the transpiler and its resolver, as one value
TState ==
    [ cache |-> resource, outcomes |-> outcomes, last |-> lastEntry,
      resources |-> resources, models |-> tmodels, failed |-> FALSE, looks |-> looks ]

\* self.resolver.resolve_normal / resolve_model on `key`
Resolved(t, key, got) ==
    [t EXCEPT !.cache = got.cache,
              !.outcomes[key][got.outcome] = @ + 1,
              !.last = [outcome |-> got.outcome, key |-> key, res |-> got.res, err |-> got.err]]

TResolve(t, key) == Resolved(t, key, get_or_insert(t.cache, key))

\* bookkeeping: the first entry returned for descriptor `res` in use `use`
FirstLook(t1, use, res) ==
    IF <<use, res>> \in DOMAIN t1.looks THEN t1
    ELSE [t1 EXCEPT !.looks = [x \in DOMAIN t1.looks \cup {<<use, res>>} |->
                                  IF x = <<use, res>> THEN t1.last.outcome ELSE t1.looks[x]]]

\* the ResourceType each use of a descriptor is resolved under
UseType(use) == IF use \in {"background", "cardstill"} THEN "Image" ELSE "Bgm"
Uses == {"bgm", "se", "background", "cardstill"}

\* Transpiler::maybe_push_resource
maybe_push_resource_Always(t, entry) == [t EXCEPT !.resources = Append(@, entry.res)]

maybe_push_resource(t, entry) ==
    IF entry.outcome = "Vacant" THEN [t EXCEPT !.resources = Append(@, entry.res)] ELSE t

\* the `?` after a resolve_normal
Failed(t) == [t EXCEPT !.failed = TRUE]

\* `let entry = self.resolver.resolve_normal(..)?; self.maybe_push_resource(&entry)`
PushEntry(t1) ==
    IF t1.last.outcome = "Err" THEN Failed(t1) ELSE maybe_push_resource(t1, t1.last)

\* Transpiler::transpile_bgm
transpile_bgm(t, res) == PushEntry(FirstLook(TResolve(t, NormalKey(res, "Bgm")), "bgm", res))

\* Transpiler::transpile_se (it resolves under ResourceType::Bgm)
transpile_se(t, res) == PushEntry(FirstLook(TResolve(t, NormalKey(res, "Bgm")), "se", res))

\* Transpiler::transpile_sound: Result::and evaluates both sides
ResultAnd(t1, t2) == [t2 EXCEPT !.failed = t1.failed \/ t2.failed]

SoundSe(t1, se) ==
    ResultAnd(t1, IF se = NoDescriptor THEN t1
                  ELSE transpile_se([t1 EXCEPT !.failed = FALSE], se))

transpile_sound(t, bgm, se) ==
    SoundSe(IF bgm = NoDescriptor THEN t ELSE transpile_bgm(t, bgm), se)

\* Transpiler::display_background
display_background(t, res) ==
    PushEntry(FirstLook(TResolve(t, NormalKey(res, "Image")), "background", res))

\* a variant in which a card still has a category of its own
display_cardstill_OwnType(t, res) ==
    PushEntry(FirstLook(TResolve(t, NormalKey(res, "Se")), "cardstill", res))

\* Transpiler::display_cardstill: the stage is cleared and restored around the image
display_cardstill(t, res) ==
    PushEntry(FirstLook(TResolve(t, NormalKey(res, "Image")), "cardstill", res))

\* a resolver whose models carry a ModelDisplayResolve that can fail
HasDisplayResolver_Some == TRUE

\* what Resolver::resolve_model returns besides the entry: the Resolver has no
\* ModelDisplayResolve implementation, a Model's resolver is None
HasDisplayResolver == FALSE

\* Transpiler::display_motion: the character is staged if absent, then
\* display_model resolves motion and expression through the Model's resolver
display_motion(t, path, character, resolves) ==
    LET staged == IF character \in DOMAIN t.models THEN t.models
                  ELSE [c \in DOMAIN t.models \cup {character} |->
                           IF c = character THEN path ELSE t.models[c]]
        t1 == [t EXCEPT !.models = staged]
    IN  IF HasDisplayResolver /\ ~resolves THEN Failed(t1) ELSE t1

\* Transpiler::transpile_layout, LayoutType::Appear; transpile_motion does the same
PushModel(t2, entry) == IF t2.failed THEN t2 ELSE maybe_push_resource(t2, entry)

ShowModel(t1, character, resolves) ==
    PushModel(display_motion(t1, relative_path(t1.last.res), character, resolves), t1.last)

transpile_layout(t, costume, character, resolves) ==
    ShowModel(TResolve(t, ModelKey(costume)), character, resolves)

transpile_motion(t, costume, character, resolves) ==
    ShowModel(TResolve(t, ModelKey(costume)), character, resolves)

\* Transpiler::remove_model (LayoutType::Hide)
remove_model(t, character) ==
    IF character \in DOMAIN t.models
    THEN [t EXCEPT !.models = [c \in DOMAIN t.models \ {character} |-> t.models[c]]]
    ELSE Failed(t)

\* the script actions of a story
Characters == {1}

ScriptActions ==
    { [t |-> "Sound", bgm |-> b, se |-> s, image |-> NoDescriptor, model |-> <<>>, character |-> 0] :
          b \in Descriptors \cup {NoDescriptor}, s \in Descriptors \cup {NoDescriptor} }
    \cup { [t |-> k, bgm |-> NoDescriptor, se |-> NoDescriptor, image |-> d, model |-> <<>>,
            character |-> 0] : k \in {"ChangeBackground", "ChangeCardStill"}, d \in Descriptors }
    \cup { [t |-> k, bgm |-> NoDescriptor, se |-> NoDescriptor, image |-> NoDescriptor,
            model |-> c, character |-> ch] :
               k \in {"Appear", "Motion"}, c \in Costumes, ch \in Characters }
    \cup { [t |-> "Hide", bgm |-> NoDescriptor, se |-> NoDescriptor, image |-> NoDescriptor,
            model |-> <<>>, character |-> ch] : ch \in Characters }

\* Transpiler::transpile on one action
transpile(t, a, resolves) ==
    CASE a.t = "Sound" -> transpile_sound(t, a.bgm, a.se)
      [] a.t = "ChangeBackground" -> display_background(t, a.image)
      [] a.t = "ChangeCardStill" -> display_cardstill(t, a.image)
      [] a.t = "Appear" -> transpile_layout(t, a.model, a.character, resolves)
      [] a.t = "Motion" -> transpile_motion(t, a.model, a.character, resolves)
      [] a.t = "Hide" -> remove_model(t, a.character)

\* the transpiler after one action; a failed action is collected as an error
Transpiled(t) ==
    /\ resource' = t.cache
    /\ outcomes' = t.outcomes
    /\ lastEntry' = t.last
    /\ resources' = t.resources
    /\ tmodels' = t.models
    /\ terrors' = IF t.failed THEN terrors \cup {tdone + 1} ELSE terrors
    /\ tdone' = tdone + 1
    /\ looks' = t.looks

\* one step of Transpile::transpile's iteration over the story
Transpile(a, resolves) ==
    /\ pipe.pc = "none"
    /\ tdone < MaxActions
    /\ Transpiled(transpile(TState, a, resolves))
    /\ UNCHANGED <<poolVars, pipeVars, defaultVars>>

\* TranspilePipeline::join, l.136: the story is transpiled, DownloadPipeline::new
\* builds the Downloader (a pool of n workers) and starts the thread on the
\* transpiler's resource list
StartDownload(n, srv) ==
    /\ pipe.pc = "none"
    /\ batch' = resources
    /\ server' = srv
    /\ pipe' = NewPipeline(resources).pipe
    /\ pstate' = NewPipeline(resources).pstate
    /\ hs' = NewPipeline(resources).hs
    /\ coords' = NewPipeline(resources).coords
    /\ user' = NewPipeline(resources).user
    /\ dlAlive' = TRUE
    /\ count' = 0
    /\ workers' = [w \in 1..n |-> NewWorker]
    /\ poolHandles' = 1..n
    /\ poolAlive' = TRUE
    /\ UNCHANGED <<pcancel, files, jobs, queue, poolCancel, budget>>
    /\ UNCHANGED frontVars

(***************************************************************************)
(* src/pipeline/downloader.rs: DefaultDownloader, the earlier downloader.  *)
(* One thread runs worker_loop and hands every Task and Callback command   *)
(* to the async runtime; a second thread runs the bind callbacks.          *)
(***************************************************************************)
\* a command, as the record kept of it: DownloadCommand::Task / Callback / Lazy;
\* `by` tells who sent it: "download", "download_bind", "download_lazy", "callback"
DownloadCommand(kind, by) == [kind |-> kind, pc |-> "queued", by |-> by]

\* DownloaderState as with_header builds it
DownloaderState == [task_count |-> 0, bind_active_count |-> 0, shutdown |-> FALSE, error |-> <<>>]

\* DefaultDownloader::with_header
\* DefaultPipeline::new: procedure is NotStarted, no thread, no handle; `threads`
\* holds the position of every thread process() spawned, `results` what each
\* process() call returned, `joining` the thread wait() is joining
NewDefaultPipeline ==
    [procedure |-> "NotStarted", paniced |-> FALSE, handle |-> 0,
     threads |-> <<>>, results |-> <<>>, joining |-> 0]

InitDefaultDownloader ==
    /\ commandq = <<>>
    /\ dtasks = <<>>
    /\ dstate = DownloaderState
    /\ bind_queue = <<>>
    /\ bind_queue_len = 0
    /\ loopw = [pc |-> "recv", id |-> 0, qlen |-> 0]
    /\ binder = [pc |-> "wait", id |-> 0]
    /\ caller = [pc |-> "idle", calls |-> 0, waitOn |-> {}, handle |-> TRUE]
    /\ dpipeline = NewDefaultPipeline

\* no DefaultDownloader was built
InitNoDefaultDownloader ==
    /\ commandq = <<>>
    /\ dtasks = <<>>
    /\ dstate = DownloaderState
    /\ bind_queue = <<>>
    /\ bind_queue_len = 0
    /\ loopw = [pc |-> "none", id |-> 0, qlen |-> 0]
    /\ binder = [pc |-> "none", id |-> 0]
    /\ caller = [pc |-> "none", calls |-> 0, waitOn |-> {}, handle |-> FALSE]
    /\ dpipeline = NewDefaultPipeline

\* the Receiver lives as long as worker_loop runs
ReceiverAlive == loopw.pc # "stopped"

\* sender.send(command): the command is queued unless the Receiver is gone
SendCommands(q, ids) == IF ReceiverAlive THEN q \o ids ELSE q

\* the caller is free to make a call
CallerFree == caller.pc \in {"idle", "returned"}

\* one of download / download_bind / download_lazy: the command is sent; with the
\* Receiver gone the call returns a SendError and nothing is queued
Enqueue(kind, by) ==
    /\ CallerFree
    /\ caller.calls < MaxDefaultCalls
    /\ caller' = [caller EXCEPT !.pc = "idle", !.calls = @ + 1]
    /\ IF ReceiverAlive
       THEN /\ dtasks' = Append(dtasks, DownloadCommand(kind, by))
            /\ commandq' = Append(commandq, Len(dtasks) + 1)
       ELSE UNCHANGED <<dtasks, commandq>>
    /\ UNCHANGED <<dstate, bind_queue, bind_queue_len, loopw, binder>>
    /\ UNCHANGED <<resolverVars, tVars, poolVars, pipeVars, dpipeline>>

\* Downloader::download / download_bind / download_lazy for DefaultDownloader
DefaultDownload == Enqueue("Task", "download")
DefaultDownloadBind == Enqueue("Callback", "download_bind")
DefaultDownloadLazy == Enqueue("Lazy", "download_lazy")

\* the tasks the caller has enqueued itself by download / download_bind
EnqueuedByCaller ==
    {i \in DOMAIN dtasks : dtasks[i].by \in {"download", "download_bind"}}

\* Downloader::wait is called: the mutex is taken, the loop condition evaluated
DefaultWaitCall ==
    /\ CallerFree
    /\ caller' = [caller EXCEPT !.pc = "waiting", !.waitOn = EnqueuedByCaller]
    /\ UNCHANGED <<commandq, dtasks, dstate, bind_queue, bind_queue_len, loopw, binder>>
    /\ UNCHANGED <<resolverVars, tVars, poolVars, pipeVars, dpipeline>>

\* the condition of wait's loop
MustWait(st) == st.task_count > 0 /\ ~st.shutdown

\* Downloader::wait returns
DefaultWaitReturn ==
    /\ caller.pc = "waiting"
    /\ ~MustWait(dstate)
    /\ caller' = [caller EXCEPT !.pc = "returned"]
    /\ UNCHANGED <<commandq, dtasks, dstate, bind_queue, bind_queue_len, loopw, binder>>
    /\ UNCHANGED <<resolverVars, tVars, poolVars, pipeVars, dpipeline>>

\* Downloader::shutdown (also Drop): Shutdown is sent, the worker thread joined
DefaultShutdown ==
    /\ CallerFree
    /\ caller.handle
    /\ caller' = [caller EXCEPT !.pc = "joining"]
    /\ commandq' = SendCommands(commandq, <<0>>)
    /\ UNCHANGED <<dtasks, dstate, bind_queue, bind_queue_len, loopw, binder>>
    /\ UNCHANGED <<resolverVars, tVars, poolVars, pipeVars, dpipeline>>

DefaultShutdownJoined ==
    /\ caller.pc = "joining"
    /\ loopw.pc = "stopped"
    /\ caller' = [caller EXCEPT !.pc = "idle", !.handle = FALSE]
    /\ UNCHANGED <<commandq, dtasks, dstate, bind_queue, bind_queue_len, loopw, binder>>
    /\ UNCHANGED <<resolverVars, tVars, poolVars, pipeVars, dpipeline>>

\* worker_loop, `for command in command_receiver`: a Task or a Callback is spawned
\* on the runtime; for a Lazy bind_queue_len is loaded; Shutdown sets the flag
LoopReceive ==
    /\ loopw.pc = "recv"
    /\ commandq # <<>>
    /\ commandq' = Tail(commandq)
    /\ LET id == Head(commandq)
       IN  CASE id = 0 ->
                  /\ dstate' = [dstate EXCEPT !.shutdown = TRUE]
                  /\ loopw' = [loopw EXCEPT !.pc = "draining"]
                  /\ UNCHANGED dtasks
             [] id # 0 /\ dtasks[id].kind = "Lazy" ->
                  /\ loopw' = [pc |-> "lazy", id |-> id, qlen |-> bind_queue_len]
                  /\ UNCHANGED <<dtasks, dstate>>
             [] OTHER ->
                  /\ dtasks' = [dtasks EXCEPT ![id].pc = "spawned"]
                  /\ UNCHANGED <<loopw, dstate>>
    /\ UNCHANGED <<bind_queue, bind_queue_len, binder, caller>>
    /\ UNCHANGED <<resolverVars, tVars, poolVars, pipeVars, dpipeline>>

\* the test a Lazy command makes before its callback is called
LazyMustYield(st, qlen) == st.task_count > 0 \/ st.bind_active_count > 0 \/ qlen > 0

\* worker_loop, Lazy: the state is checked under the lock; the command is sent to
\* the back of the channel again, or the lock is released and cb() called
LoopLazyCheck ==
    /\ loopw.pc = "lazy"
    /\ IF LazyMustYield(dstate, loopw.qlen)
       THEN /\ commandq' = SendCommands(commandq, <<loopw.id>>)
            /\ loopw' = [loopw EXCEPT !.pc = "recv", !.id = 0, !.qlen = 0]
            /\ UNCHANGED dtasks
       ELSE /\ loopw' = [loopw EXCEPT !.pc = "lazycb"]
            /\ dtasks' = [dtasks EXCEPT ![loopw.id].pc = "calling"]
            /\ UNCHANGED commandq
    /\ UNCHANGED <<dstate, bind_queue, bind_queue_len, binder, caller>>
    /\ UNCHANGED <<resolverVars, tVars, poolVars, pipeVars, dpipeline>>

\* worker_loop, Lazy: cb() has returned its Resource, a Task is sent for it
LoopLazyReturn ==
    /\ loopw.pc = "lazycb"
    /\ dtasks' = Append([dtasks EXCEPT ![loopw.id].pc = "returned"],
                        DownloadCommand("Task", "callback"))
    /\ commandq' = SendCommands(commandq, <<Len(dtasks) + 1>>)
    /\ loopw' = [loopw EXCEPT !.pc = "recv", !.id = 0, !.qlen = 0]
    /\ UNCHANGED <<dstate, bind_queue, bind_queue_len, binder, caller>>
    /\ UNCHANGED <<resolverVars, tVars, poolVars, pipeVars, dpipeline>>

\* worker_loop, Shutdown: under the lock task_count is found 0 and the loop is
\* left with `break`; the lock is released, the runtime still runs
LoopStop ==
    /\ loopw.pc = "draining"
    /\ dstate.task_count = 0
    /\ loopw' = [loopw EXCEPT !.pc = "leaving"]
    /\ UNCHANGED <<commandq, dtasks, dstate, bind_queue, bind_queue_len, binder, caller>>
    /\ UNCHANGED <<resolverVars, tVars, poolVars, pipeVars, dpipeline>>

\* what the drop of the runtime makes of a task: a future that waits for its
\* request is dropped where it waits (its permit goes back, its count stays), one
\* not yet polled is dropped unstarted; the code after the request has no await
AfterRuntimeDrop(t) ==
    CASE t.pc \in {"queued", "spawned"} -> [t EXCEPT !.pc = "dropped"]
      [] t.pc = "active" -> [t EXCEPT !.pc = "aborted"]
      [] OTHER -> t

\* worker_loop returns: the Receiver and the runtime are dropped with the thread
LoopReturn ==
    /\ loopw.pc = "leaving"
    /\ loopw' = [loopw EXCEPT !.pc = "stopped"]
    /\ commandq' = <<>>
    /\ dtasks' = [i \in DOMAIN dtasks |-> AfterRuntimeDrop(dtasks[i])]
    /\ UNCHANGED <<dstate, bind_queue, bind_queue_len, binder, caller>>
    /\ UNCHANGED <<resolverVars, tVars, poolVars, pipeVars, dpipeline>>

\* the permits of the semaphore still free
Permits == DOWNLOAD_TASK_LIMIT - Cardinality({i \in DOMAIN dtasks : dtasks[i].pc \in {"active", "fetched"}})

\* the spawned future of a Task or a Callback: a permit is acquired, task_count
\* incremented
TaskStart(id) ==
    /\ dtasks[id].pc = "spawned"
    /\ Permits > 0
    /\ dtasks' = [dtasks EXCEPT ![id].pc = "active"]
    /\ dstate' = [dstate EXCEPT !.task_count = @ + 1]
    /\ UNCHANGED <<commandq, bind_queue, bind_queue_len, loopw, binder, caller>>
    /\ UNCHANGED <<resolverVars, tVars, poolVars, pipeVars, dpipeline>>

\* the request has ended: under the lock the error (if any) is recorded and
\* task_count decremented; a Callback that got its bytes has yet to queue them
Finished_NoDecrement(st, id, ok) ==
    [st EXCEPT !.error = IF ok THEN @ ELSE Append(@, id)]

Finished(st, id, ok) ==
    [st EXCEPT !.error = IF ok THEN @ ELSE Append(@, id),
               !.task_count = IF @ > 0 THEN @ - 1 ELSE @]

TaskEnd(id, ok) ==
    /\ dtasks[id].pc = "active"
    /\ dtasks' = [dtasks EXCEPT ![id].pc = IF ok /\ dtasks[id].kind = "Callback"
                                           THEN "fetched" ELSE "done"]
    /\ dstate' = Finished(dstate, id, ok)
    /\ UNCHANGED <<commandq, bind_queue, bind_queue_len, loopw, binder, caller>>
    /\ UNCHANGED <<resolverVars, tVars, poolVars, pipeVars, dpipeline>>

\* the future of a Callback: (bytes, cb) is pushed to bind_queue, bind_queue_len
\* incremented, the bind-processor notified
CallbackPush(id) ==
    /\ dtasks[id].pc = "fetched"
    /\ dtasks' = [dtasks EXCEPT ![id].pc = "bound"]
    /\ bind_queue' = Append(bind_queue, id)
    /\ bind_queue_len' = bind_queue_len + 1
    /\ UNCHANGED <<commandq, dstate, loopw, binder, caller>>
    /\ UNCHANGED <<resolverVars, tVars, poolVars, pipeVars, dpipeline>>

\* the bind-processor: the first item is removed, bind_queue_len decremented
BinderPop ==
    /\ binder.pc = "wait"
    /\ bind_queue # <<>>
    /\ binder' = [pc |-> "popped", id |-> Head(bind_queue)]
    /\ bind_queue' = Tail(bind_queue)
    /\ bind_queue_len' = bind_queue_len - 1
    /\ UNCHANGED <<commandq, dtasks, dstate, loopw, caller>>
    /\ UNCHANGED <<resolverVars, tVars, poolVars, pipeVars, dpipeline>>

\* the bind-processor: bind_active_count is incremented, then cb(bytes) called
BinderCall ==
    /\ binder.pc = "popped"
    /\ binder' = [binder EXCEPT !.pc = "calling"]
    /\ dstate' = [dstate EXCEPT !.bind_active_count = @ + 1]
    /\ dtasks' = [dtasks EXCEPT ![binder.id].pc = "calling"]
    /\ UNCHANGED <<commandq, bind_queue, bind_queue_len, loopw, caller>>
    /\ UNCHANGED <<resolverVars, tVars, poolVars, pipeVars, dpipeline>>

\* the bind-processor: cb returned n resources, a Task is sent for each (a send
\* that fails is ignored), then bind_active_count is decremented
BinderReturn(n) ==
    /\ binder.pc = "calling"
    /\ binder' = [pc |-> "wait", id |-> 0]
    /\ dtasks' = [dtasks EXCEPT ![binder.id].pc = "returned"]
                    \o [k \in 1..(IF ReceiverAlive THEN n ELSE 0) |->
                           DownloadCommand("Task", "callback")]
    /\ commandq' = SendCommands(commandq, [k \in 1..n |-> Len(dtasks) + k])
    /\ dstate' = [dstate EXCEPT !.bind_active_count = IF @ > 0 THEN @ - 1 ELSE @]
    /\ UNCHANGED <<bind_queue, bind_queue_len, loopw, caller>>
    /\ UNCHANGED <<resolverVars, tVars, poolVars, pipeVars, dpipeline>>

\* the threads of a DefaultDownloader and its caller
CallerStep ==
    \/ DefaultDownload
    \/ DefaultDownloadBind
    \/ DefaultDownloadLazy
    \/ DefaultWaitCall
    \/ DefaultWaitReturn
    \/ DefaultShutdown
    \/ DefaultShutdownJoined

LoopStep ==
    \/ LoopReceive
    \/ LoopLazyCheck
    \/ LoopLazyReturn
    \/ LoopStop
    \/ LoopReturn

RuntimeStep ==
    \/ \E id \in DOMAIN dtasks : TaskStart(id)
    \/ \E id \in DOMAIN dtasks, ok \in BOOLEAN : TaskEnd(id, ok)
    \/ \E id \in DOMAIN dtasks : CallbackPush(id)

BinderStep ==
    \/ BinderPop
    \/ BinderCall
    \/ \E n \in 0..MaxBound : BinderReturn(n)

NextDefault == CallerStep \/ LoopStep \/ RuntimeStep \/ BinderStep

InitDefault ==
    InitResolver /\ InitTranspiler /\ InitDefaultDownloader /\ InitNoPool /\ InitNoPipe

SpecDefault == InitDefault /\ [][NextDefault]_vars

(***************************************************************************)
(* src/pipeline/pipeline.rs: DefaultPipeline, the earlier pipeline.        *)
(***************************************************************************)

\* process() calls made on one DefaultPipeline
MaxProcessCalls == 3

\* what process() returns: Paniced if the flag is set, BadStart unless procedure
\* is NotStarted, else Ok
ProcessResult(p) ==
    IF p.paniced THEN "Paniced"
    ELSE IF p.procedure # "NotStarted" THEN "BadStart"
    ELSE "Ok"

\* Pipeline::process: after the two tests a thread is spawned and its handle
\* replaces the one held; procedure is written by the thread, not here
process(p) ==
    IF ProcessResult(p) = "Ok"
    THEN [p EXCEPT !.results = Append(@, "Ok"),
                   !.threads = Append(@, "spawned"),
                   !.handle = Len(p.threads) + 1]
    ELSE [p EXCEPT !.results = Append(@, ProcessResult(p))]

DefaultProcess ==
    /\ dpipeline.joining = 0
    /\ Len(dpipeline.results) < MaxProcessCalls
    /\ dpipeline' = process(dpipeline)
    /\ UNCHANGED <<commandq, dtasks, dstate, bind_queue, bind_queue_len, loopw, binder, caller>>
    /\ UNCHANGED <<resolverVars, tVars, poolVars, pipeVars>>

\* the closure process() spawns, from one write of procedure to the next; the
\* story that does not parse (or a module that does not start) sets paniced and
\* panics
ThreadAdvance(p, t, ok) ==
    CASE p.threads[t] = "spawned" ->
           [p EXCEPT !.procedure = "ParsingScript", !.threads[t] = "parsing"]
      [] p.threads[t] = "parsing" /\ ok ->
           [p EXCEPT !.procedure = "Transpiling", !.threads[t] = "transpiling"]
      [] p.threads[t] = "parsing" /\ ~ok ->
           [p EXCEPT !.paniced = TRUE, !.threads[t] = "panicked"]
      [] p.threads[t] = "transpiling" ->
           [p EXCEPT !.procedure = "WaitingForDownload", !.threads[t] = "waiting"]
      [] p.threads[t] = "waiting" ->
           [p EXCEPT !.procedure = "Extracting", !.threads[t] = "extracting"]
      [] p.threads[t] = "extracting" ->
           [p EXCEPT !.procedure = "Completed", !.threads[t] = "finished"]

ThreadEnded(p, t) == p.threads[t] \in {"finished", "panicked"}

ThreadStep(t, ok) ==
    /\ ~ThreadEnded(dpipeline, t)
    /\ dpipeline' = ThreadAdvance(dpipeline, t, ok)
    /\ UNCHANGED <<commandq, dtasks, dstate, bind_queue, bind_queue_len, loopw, binder, caller>>
    /\ UNCHANGED <<resolverVars, tVars, poolVars, pipeVars>>

\* Pipeline::wait: the handle is taken and joined
DefaultPipelineWait ==
    /\ dpipeline.joining = 0
    /\ dpipeline.handle # 0
    /\ dpipeline' = [dpipeline EXCEPT !.joining = dpipeline.handle, !.handle = 0]
    /\ UNCHANGED <<commandq, dtasks, dstate, bind_queue, bind_queue_len, loopw, binder, caller>>
    /\ UNCHANGED <<resolverVars, tVars, poolVars, pipeVars>>

\* Pipeline::wait: join returned; a thread that panicked sets paniced
DefaultPipelineJoined ==
    /\ dpipeline.joining # 0
    /\ ThreadEnded(dpipeline, dpipeline.joining)
    /\ dpipeline' = [dpipeline EXCEPT
                        !.joining = 0,
                        !.paniced = @ \/ dpipeline.threads[dpipeline.joining] = "panicked"]
    /\ UNCHANGED <<commandq, dtasks, dstate, bind_queue, bind_queue_len, loopw, binder, caller>>
    /\ UNCHANGED <<resolverVars, tVars, poolVars, pipeVars>>

NextProcess ==
    \/ DefaultProcess
    \/ \E t \in DOMAIN dpipeline.threads, ok \in BOOLEAN : ThreadStep(t, ok)
    \/ DefaultPipelineWait
    \/ DefaultPipelineJoined

InitProcess ==
    InitResolver /\ InitTranspiler /\ InitNoDefaultDownloader /\ InitNoPool /\ InitNoPipe

\* one DefaultPipeline, its owner calling process() and wait() freely
SpecProcess == InitProcess /\ [][NextProcess]_vars

\* the resolver alone: no download pool has been built
InitResolverOnly == InitResolver /\ InitTranspiler /\ InitNoDefaultDownloader /\ InitNoPool /\ InitNoPipe

SpecResolver == InitResolverOnly /\ [][NextResolver]_vars

\* the pool driven by a client that submits, cancels, joins and drops freely
InitPool == InitResolver /\ InitTranspiler /\ InitNoDefaultDownloader /\ InitPoolOf(PoolWorkers, PoolJobs) /\ InitNoPipe

NextPool ==
    \/ \E w \in DOMAIN workers : WorkerStep(w)
    \/ Download(<<"u">>)
    \/ \E j \in DOMAIN jobs : HandleCancel(j)
    \/ \E j \in DOMAIN jobs : HandleDrop(j)
    \/ \E j \in DOMAIN jobs : HandleJoin(j)
    \/ PoolCancel
    \/ PoolDrop

SpecPool == InitPool /\ [][NextPool]_vars

\* the pool driven by a client that submits and cancels; every worker thread
\* keeps running: the scheduler is fair to each of them and every network
\* request ends (TASK_TIMEOUT)
NextPoolLive ==
    \/ \E w \in DOMAIN workers : WorkerStep(w)
    \/ Download(<<"u">>)
    \/ \E j \in DOMAIN jobs : HandleCancel(j)
    \/ PoolCancel

SpecPoolFair ==
    /\ InitPool
    /\ [][NextPoolLive]_vars
    /\ \A w \in 1..PoolWorkers : WF_vars(WorkerStep(w))

\* a pool of one worker whose client only submits
InitSolo == InitResolver /\ InitTranspiler /\ InitNoDefaultDownloader /\ InitPoolOf(1, SoloJobs) /\ InitNoPipe

NextSolo ==
    \/ WorkerStep(1)
    \/ Download(<<"u">>)

SpecSolo == InitSolo /\ [][NextSolo]_vars

\* the owner of a pipeline polls, cancels and joins freely
OwnerStep ==
    \/ PipelineState
    \/ PipelineCancel
    \/ PipelineJoinBegin
    \/ PipelineJoinEnd

\* a pipeline over a batch of plain resources
PlainResources ==
    { resolve_image(BdResource("Custom", UrlPath(<<"h", ":", "/", "a">>))),
      resolve_bgm(BdResource("Bandori", FilePath(<<"B", "g">>))) }

PlainBatches == UNION { [1..n -> PlainResources] : n \in 0..MaxBatch }

InitBatch ==
    /\ InitResolver
    /\ InitTranspiler
    /\ InitNoDefaultDownloader
    /\ InitPoolOf(1, 0)
    /\ \E res \in PlainBatches : InitPipeOf(res, Served(FALSE, BuildScript(0, 0, 0)))

NextBatch ==
    \/ \E w \in DOMAIN workers : WorkerStep(w)
    \/ PipeStep
    \/ OwnerStep

SpecBatch == InitBatch /\ [][NextBatch]_vars

\* a pipeline over one model, the server holding any of a few build scripts
FigureServed ==
    { Served(FALSE, BuildScript(0, 0, 0)) }
        \cup { Served(TRUE, BuildScript(nt, nm, ne)) :
                   nt \in 0..MaxTextures, nm \in 0..MaxMotions, ne \in 0..MaxMotions }

InitFigure ==
    /\ InitResolver
    /\ InitTranspiler
    /\ InitNoDefaultDownloader
    /\ InitPoolOf(1, 0)
    /\ \E srv \in FigureServed : InitPipeOf(<<ModelResource(<<"A">>)>>, srv)

NextFigure ==
    \/ \E w \in DOMAIN workers : WorkerStep(w)
    \/ \E c \in DOMAIN coords : CoordStep(c)
    \/ PipeStep
    \/ OwnerStep

SpecFigure == InitFigure /\ [][NextFigure]_vars

\* a pipeline over a plain resource and a model whose build script names one texture
InitMixed ==
    /\ InitResolver
    /\ InitTranspiler
    /\ InitNoDefaultDownloader
    /\ InitPoolOf(1, 0)
    /\ InitPipeOf(<<resolve_image(BdResource("Custom", UrlPath(<<"h", ":", "/", "a">>))),
                    ModelResource(<<"A">>)>>,
                  Served(TRUE, BuildScript(1, 0, 0)))

SpecMixed == InitMixed /\ [][NextFigure]_vars

\* a Downloader whose owner may call cancel() on it at any point of its work;
\* every thread keeps running and every network request ends (TASK_TIMEOUT)
NextCancel ==
    \/ \E w \in DOMAIN workers : WorkerStep(w)
    \/ \E c \in DOMAIN coords : CoordStep(c)
    \/ PipeStep
    \/ DownloaderCancel

SpecCancel ==
    /\ InitMixed
    /\ [][NextCancel]_vars
    /\ WF_vars(WorkerStep(1))
    /\ \A c \in 1..MaxBatch : WF_vars(c \in DOMAIN coords /\ CoordStep(c))

\* a Downloader whose owner submits a batch, joins every handle and then calls
\* Downloader::join; nothing is cancelled. Every thread keeps running and every
\* network request ends (TASK_TIMEOUT)
InitJoin ==
    /\ InitResolver
    /\ InitTranspiler
    /\ InitNoDefaultDownloader
    /\ InitPoolOf(1, 0)
    /\ \E res \in { <<ModelResource(<<"A">>)>>,
                     <<resolve_image(BdResource("Custom", UrlPath(<<"h", ":", "/", "a">>))),
                       resolve_bgm(BdResource("Bandori", FilePath(<<"B", "g">>)))>> } :
           InitPipeOf(res, Served(TRUE, BuildScript(1, 0, 0)))

OwnerThread ==
    \/ PipeSubmit
    \/ PipeCheck /\ pipe.handles # <<>>
    \/ \E writeOk \in BOOLEAN : PipeJoin(writeOk)
    \/ PipeWriteSuccess
    \/ PipeWriteFailed
    \/ PipePoll
    \/ DownloaderJoin

NextJoin ==
    \/ \E w \in DOMAIN workers : WorkerStep(w)
    \/ \E c \in DOMAIN coords : CoordStep(c)
    \/ OwnerThread

SpecJoin ==
    /\ InitJoin
    /\ [][NextJoin]_vars
    /\ WF_vars(WorkerStep(1))
    /\ \A c \in 1..MaxBatch : WF_vars(c \in DOMAIN coords /\ CoordStep(c))
    /\ WF_vars(OwnerThread)

\* a pipeline that is left to run: its owner polls state() and joins, and never
\* calls cancel(). Every thread keeps running and every network request ends
\* (TASK_TIMEOUT)
RunBatches ==
    PlainBatches
        \cup { <<ModelResource(<<"A">>)>>,
               <<resolve_image(BdResource("Custom", UrlPath(<<"h", ":", "/", "a">>))),
                 ModelResource(<<"A">>)>> }

InitRun ==
    /\ InitResolver
    /\ InitTranspiler
    /\ InitNoDefaultDownloader
    /\ InitPoolOf(1, 0)
    /\ \E res \in RunBatches, srv \in {Served(FALSE, BuildScript(0, 0, 0)),
                                        Served(TRUE, BuildScript(1, 0, 0))} :
           InitPipeOf(res, srv)

OwnerPolls ==
    \/ PipelineState
    \/ PipelineJoinBegin
    \/ PipelineJoinEnd

NextRun ==
    \/ \E w \in DOMAIN workers : WorkerStep(w)
    \/ \E c \in DOMAIN coords : CoordStep(c)
    \/ PipeStep
    \/ OwnerPolls

SpecRun ==
    /\ InitRun
    /\ [][NextRun]_vars
    /\ WF_vars(WorkerStep(1))
    /\ \A c \in 1..MaxBatch : WF_vars(c \in DOMAIN coords /\ CoordStep(c))
    /\ WF_vars(PipeStep)

\* an end-to-end run: a story is transpiled, its resources are downloaded and the
\* pipeline is joined (run_pipeline_blocking); fetches and writes succeed (a fetch
\* that fails is requeued inside the pool and creates no job, see Requeue)
StoryActions ==
    { a \in ScriptActions :
         /\ a.bgm \in {NoDescriptor, BdResource("Custom", UrlPath(<<"h", ":", "/", "a">>))}
         /\ a.se = NoDescriptor
         /\ a.image \in {NoDescriptor, BdResource("Custom", UrlPath(<<"h", ":", "/", "a">>))}
         /\ a.model \in {<<>>, <<"A">>} }

InitE2E == InitResolver /\ InitTranspiler /\ InitNoDefaultDownloader /\ InitNoPool /\ InitNoPipe

NextE2E ==
    \/ \E a \in StoryActions, resolves \in BOOLEAN : Transpile(a, resolves)
    \/ StartDownload(1, Served(TRUE, BuildScript(1, 0, 0)))
    \/ \E w \in DOMAIN workers :
          \/ WorkerCheck(w)
          \/ WorkerTake(w)
          \/ WorkerResponse(w, "ok", TRUE)
          \/ WorkerDrop(w)
    \/ \E c \in DOMAIN coords :
          \/ CoordStart(c)
          \/ CoordManifest(c, TRUE)
          \/ CoordLoop(c)
          \/ CoordSubmit(c)
          \/ CoordDerived(c, TRUE)
    \/ PipeSubmit
    \/ PipeCheck
    \/ PipeJoin(TRUE)
    \/ PipeWriteSuccess
    \/ PipeWriteFailed
    \/ PipePoll
    \/ PipelineJoinBegin
    \/ PipelineJoinEnd

SpecE2E == InitE2E /\ [][NextE2E]_vars

\* the transpiler alone, over every story of MaxActions actions
NextTranspile == \E a \in ScriptActions, resolves \in BOOLEAN : Transpile(a, resolves)

SpecTranspile == InitE2E /\ [][NextTranspile]_vars

CallsOn(k) == outcomes[k]["Vacant"] + outcomes[k]["Occupied"] + outcomes[k]["Err"]

Resolvable(k) == KeyResource(k) # None

(***************************************************************************)
(* C1 (as stated): among the resolve calls that share one key, exactly one *)
(* observes Vacant and every other call observes Occupied.                 *)
(***************************************************************************)
C1_AsStated ==
    \A k \in Keys :
        CallsOn(k) > 0 =>
            /\ outcomes[k]["Vacant"] = 1
            /\ outcomes[k]["Occupied"] = CallsOn(k) - 1

(***************************************************************************)
(* C1 (amended): among the calls that share one key, if the key resolves   *)
(* under its category exactly one call (the first) observes Vacant and     *)
(* every other call observes Occupied; if it does not resolve, every call  *)
(* returns a ResolveError and none observes Vacant or Occupied.            *)
(***************************************************************************)
C1_OneVacantPerKey ==
    \A k \in Keys :
        /\ (CallsOn(k) > 0 /\ Resolvable(k)) =>
              /\ outcomes[k]["Vacant"] = 1
              /\ outcomes[k]["Occupied"] = CallsOn(k) - 1
              /\ k \in DOMAIN resource
        /\ ~Resolvable(k) =>
              /\ outcomes[k]["Vacant"] = 0
              /\ outcomes[k]["Occupied"] = 0
              /\ k \notin DOMAIN resource

\* a resolvable key was resolved three times, another key in between
C1_Witness ==
    \E k \in Keys :
        /\ Resolvable(k)
        /\ CallsOn(k) >= 3
        /\ outcomes[k]["Occupied"] = 2
        /\ \E k2 \in Keys \ {k} : CallsOn(k2) > 0


\* job j's error is sent by this step
ErrorSent(j) == jobs[j].sent = "none" /\ jobs'[j].sent = "reqwest"

\* job j failed an attempt in this step and is kept for another one
Retried(j) == jobs'[j].count = jobs[j].count + 1

\* the worker that holds job j in its network request
Fetching(w, j) == workers[w].pc = "fetch" /\ workers[w].cur = j

C4_EveryJobEnds ==
    \A j \in 1..PoolJobs :
        (Len(jobs) >= j) ~>
            (Len(jobs) >= j /\ (jobs[j].sent # "none" \/ jobs[j].hcancel \/ poolCancel))

\* a job that failed every attempt got its error, nothing was cancelled
C4_Witness ==
    \E j \in DOMAIN jobs :
        /\ jobs[j].sent = "reqwest"
        /\ ~jobs[j].hcancel
        /\ ~poolCancel

\* the handles the pipeline thread has joined, by result
ErrHandles == {i \in DOMAIN hs : hs[i].st = "joined" /\ IsErr(hs[i].result)}
OkHandles == {i \in DOMAIN hs : hs[i].st = "joined" /\ ~IsErr(hs[i].result)}

\* the counts of check() that are not yet added to the shared state
PendingSuccess == IF pipe.pc \in {"join", "wsuccess"} THEN pipe.success ELSE 0
PendingFailed == IF pipe.pc \in {"join", "wsuccess", "wfailed"} THEN pipe.failed ELSE 0

C6_AsStated ==
    (/\ user.phase = "joined"
     /\ \A i \in DOMAIN hs : hs[i].result = OkResult)
        => /\ user.result[1].state.done = Len(batch)
           /\ user.result[1].state.total = Len(batch)
           /\ user.result[1].errors = <<>>

(***************************************************************************)
(* C8: a plain resource whose fetch ends with the pool's error after the   *)
(* retries makes its handle's join return a download error that carries    *)
(* the resource's url and destination path; the pipeline tallies every     *)
(* such handle as failed, with one entry in errors, and never as success.  *)
(***************************************************************************)
C8_FailureReported ==
    /\ \A i \in DOMAIN hs :
          (hs[i].kind = "Common" /\ hs[i].st = "joined" /\ jobs[hs[i].job].sent = "reqwest")
              => /\ hs[i].result
                       = DownloadError(batch[i].url, absolute_path(batch[i], Root), "reqwest")
                 /\ i \in ErrHandles
                 /\ \E k \in DOMAIN pipe.errors : pipe.errors[k] = hs[i].result
    /\ pstate.failed + PendingFailed = Cardinality(ErrHandles)
    /\ pstate.success + PendingSuccess = Cardinality(OkHandles)
    /\ Len(pipe.errors) = Cardinality(ErrHandles)

C8_Witness ==
    /\ Len(batch) = MaxBatch
    /\ pipe.pc = "done"
    /\ pstate.failed = 1 /\ pstate.success = 1
    /\ \E i \in DOMAIN hs : hs[i].kind = "Common" /\ hs[i].st = "joined"
                              /\ jobs[hs[i].job].sent = "reqwest"

\* the coordinator of resource c gave up on the derived resource at position k
FailedAt(c, k) ==
    /\ coords[c].pc = "ended"
    /\ IsErr(coords[c].sent)
    /\ coords[c].idx = k
    /\ k \in coords[c].attempted

(***************************************************************************)
(* C7 (as stated): once cancel() was called on the pipeline is_finished()  *)
(* reports true, and no coordinator submits a fetch to the pool after the  *)
(* cancellation has set its cancel flag.                                   *)
(***************************************************************************)
C7_AsStated ==
    /\ user.handle = "none" => PipelineIsFinished
    /\ \A c \in DOMAIN coords : ~coords[c].late

(***************************************************************************)
(* C9 (as stated): when the build script was fetched and parsed and the    *)
(* third texture then fails to fetch, the model configuration file is      *)
(* written and the join of the compound handle reports an error.           *)
(***************************************************************************)
C9_AsStated ==
    \A c \in DOMAIN coords :
        \* the derived list is model, physics, textures ...: the third texture is at 2 + 3
        (FailedAt(c, 2 + 3) /\ hs[c].st = "joined")
            => /\ default_model_config_path(absolute_path(batch[c], Root)) \in files
               /\ IsErr(hs[c].result)
               /\ Len(pipe.errors) = 1

(***************************************************************************)
(* C10 (as stated): a compound fetch that ended on a failed derived        *)
(* resource has attempted every derived resource of the build script.      *)
(***************************************************************************)
C10_AsStated ==
    \A c \in DOMAIN coords :
        (\E k \in 1..Len(coords[c].derived) : FailedAt(c, k))
            => coords[c].attempted = 1..Len(coords[c].derived)

\* the fetch jobs submitted to the pool for a url
JobsFor(url) == Cardinality({j \in DOMAIN jobs : jobs[j].url = url})

\* the urls of the canonical resources the resolver holds, the keys that share one
CanonicalUrls == {resource[k].url : k \in DOMAIN resource}
KeysOf(url) == {k \in DOMAIN resource : resource[k].url = url}

\* the pipeline has called Downloader::download on every resource and every
\* coordinator it spawned has requested its build script
AllSubmitted ==
    /\ pipe.pc \notin {"none", "submit"}
    /\ \A c \in DOMAIN coords : coords[c].pc # "start"

Returned(o) ==
    /\ lastEntry'.outcome = o
    /\ outcomes'[lastEntry'.key][o] = outcomes[lastEntry'.key][o] + 1

(***************************************************************************)
(* C11: a resource once cached for a key is never replaced; the call that  *)
(* observes Vacant for a key caches the resource it returns, and every     *)
(* call that observes Occupied for that key returns the resource cached    *)
(* then, with the same url and the same relative_path.                     *)
(***************************************************************************)
C11_SameResource ==
    [][ /\ \A k \in DOMAIN resource : k \in DOMAIN resource' /\ resource'[k] = resource[k]
        /\ Returned("Vacant") =>
              /\ lastEntry'.key \notin DOMAIN resource
              /\ resource'[lastEntry'.key] = lastEntry'.res
        /\ Returned("Occupied") =>
              /\ lastEntry'.key \in DOMAIN resource
              /\ lastEntry'.res.url = resource[lastEntry'.key].url
              /\ relative_path(lastEntry'.res) = relative_path(resource[lastEntry'.key])
              /\ lastEntry'.res = resource[lastEntry'.key] ]_resolverVars

\* a background image descriptor was resolved twice, another key before the
\* second call: one Vacant, then one Occupied with the cached relative_path
C11_Witness ==
    \E k \in Keys :
        /\ k.tag = "Normal" /\ k.kind = "Image"
        /\ outcomes[k]["Vacant"] = 1 /\ outcomes[k]["Occupied"] = 1
        /\ lastEntry.key = k /\ lastEntry.outcome = "Occupied"
        /\ relative_path(lastEntry.res) = relative_path(resource[k])
        /\ Cardinality(DOMAIN resource) >= 2

(***************************************************************************)
(* C12 (as stated): is_finished() of a DownloadHandle is true once its     *)
(* result was sent and once cancel() was called on it; is_finished() of    *)
(* the DownloadPool is true once every submitted job is done and once      *)
(* cancel() was called on the pool.                                        *)
(***************************************************************************)
C12_AsStated ==
    /\ \A j \in DOMAIN jobs :
          (jobs[j].handle = "held" /\ (jobs[j].sent # "none" \/ jobs[j].hcancel))
              => HandleIsFinished(j)
    /\ (poolAlive /\ poolCancel) => PoolIsFinished
    /\ (poolAlive /\ jobs # <<>> /\ queue = <<>>
           /\ \A j \in DOMAIN jobs : jobs[j].sent # "none") => PoolIsFinished

\* the DownloadPipeline, as the value its cancel() acts on
ThePipeline == [cancel |-> pcancel, handle |-> user.handle]

(***************************************************************************)
(* C13: for every handle type, in every state, cancel() applied twice      *)
(* leaves what cancel() applied once leaves; and cancel() has no wait in   *)
(* it: it can be taken whenever its handle is held, whatever the workers,  *)
(* the coordinators and the pipeline thread are doing.                     *)
(***************************************************************************)
C13_CancelIdempotent ==
    /\ \A j \in DOMAIN jobs :
          /\ handle_cancel(handle_cancel(jobs[j])) = handle_cancel(jobs[j])
          /\ common_cancel(common_cancel(jobs[j])) = common_cancel(jobs[j])
          /\ jobs[j].handle = "held" => ENABLED HandleCancel(j)
    /\ \A c \in DOMAIN coords :
          live2d_cancel(live2d_cancel(coords[c])) = live2d_cancel(coords[c])
    /\ pool_cancel(pool_cancel(PoolFlags)) = pool_cancel(PoolFlags)
    /\ poolAlive => ENABLED PoolCancel
    /\ downloader_cancel(downloader_cancel(TheDownloader, coords), coords)
          = downloader_cancel(TheDownloader, coords)
    /\ pipeline_cancel(pipeline_cancel(ThePipeline)) = pipeline_cancel(ThePipeline)
    /\ user.phase = "polling" => ENABLED PipelineCancel

\* cancel() was called on the pipeline and has returned while the pipeline thread,
\* a coordinator and a fetch are still running; a second call changes nothing
C13_Witness ==
    /\ user.phase = "polling" /\ user.handle = "none" /\ pcancel
    /\ pipe.pc \notin {"done", "panicked"}
    /\ \E c \in DOMAIN coords : coords[c].pc \notin {"idle", "ended", "panicked"}
    /\ \E w \in DOMAIN workers : workers[w].pc = "fetch"
    /\ pipeline_cancel(ThePipeline) = ThePipeline

C15_AsStated ==
    poolCancel ~> (\A w \in DOMAIN workers : workers[w].pc = "exit")

(***************************************************************************)
(* C16 (as stated): once every handle the Downloader gave out has been     *)
(* joined and nothing was cancelled, a call of Downloader::join eventually *)
(* returns.                                                                *)
(***************************************************************************)
C16_AsStated ==
    (pipe.pc = "dlwait") ~> (pipe.pc = "done")

\* the coordinators that were started and have not finished
Outstanding == {c \in DOMAIN coords : coords[c].pc \notin {"idle", "ended", "panicked"}}

(***************************************************************************)
(* C17 (as stated): the downloader's counter equals the number of          *)
(* coordinators that were started and have not finished, and it never      *)
(* underflows.                                                             *)
(***************************************************************************)
C17_AsStated ==
    /\ count = Cardinality(Outstanding)
    /\ count >= 0

(***************************************************************************)
(* C18: once the Downloader was cancelled, every coordinator that is in    *)
(* flight eventually terminates, by returning or by unwinding; none stays  *)
(* blocked on a fetch or on the pool.                                      *)
(***************************************************************************)
C18_CoordinatorsEnd ==
    \A c \in 1..MaxBatch :
        (~dlAlive /\ c \in Outstanding) ~> (coords[c].pc \in {"ended", "panicked"})

\* cancel() was called on the Downloader while a coordinator waited for a fetch
\* that a worker was running; the coordinator has since unwound
C18_Witness ==
    /\ pipe.pc = "held"
    /\ \E c \in DOMAIN coords : coords[c].pc = "panicked"
    /\ \A w \in DOMAIN workers : workers[w].pc = "exit"

(***************************************************************************)
(* C19: a coordinator that has requested its build script and whose        *)
(* handle's cancel flag is set performs none of its remaining steps: a     *)
(* step of its thread writes no model configuration and submits no fetch   *)
(* to the pool.                                                            *)
(***************************************************************************)
C19_AsStated ==
    [][\A c \in DOMAIN coords :
          (coords[c].cancel /\ c \in Outstanding /\ coords[c].pc # "start" /\ coords'[c] # coords[c])
              => /\ default_model_config_path(absolute_path(batch[c], Root)) \in files' =>
                        default_model_config_path(absolute_path(batch[c], Root)) \in files
                 /\ Len(jobs') = Len(jobs)]_vars

\* the resources of the batch whose download failed: a plain resource whose
\* handle returned an error, a figure whose coordinator sent one or unwound
FailedResources ==
    {i \in DOMAIN hs :
        IF hs[i].kind = "Live2d"
        THEN IsErr(coords[i].sent) \/ coords[i].pc = "panicked"
        ELSE IsErr(hs[i].result)}

(***************************************************************************)
(* C20: when the pipeline has completed without cancel, every resource of  *)
(* the batch was joined and counted once, as a success or as a failure:    *)
(* the two tallies add up to the size of the batch, the failures are the   *)
(* failed resources and errors holds one entry for each of them.           *)
(***************************************************************************)
C20_AsStated ==
    \* run() returns normally only from the check that finds no handle left; a
    \* cancelled run unwinds in false_or_panic!
    pipe.pc = "done" =>
        /\ \A i \in DOMAIN hs : hs[i].st = "joined"
        /\ pstate.success + pstate.failed = Len(batch)
        /\ pstate.failed = Cardinality(FailedResources)
        /\ Len(pipe.errors) = Cardinality(FailedResources)

(***************************************************************************)
(* C21: a resolve call whose descriptor does not resolve under its         *)
(* category returns a ResolveError that carries that category and that     *)
(* descriptor and leaves the cache as it was; a key that failed once has   *)
(* no entry, and no call on it ever observes Vacant or Occupied.           *)
(***************************************************************************)
C21_FailureLeavesNoEntry ==
    [][ /\ Returned("Err") =>
              /\ KeyResource(lastEntry'.key) = None
              /\ lastEntry'.err.kind = lastEntry'.key.kind
              /\ lastEntry'.err.resource = lastEntry'.key.res
              /\ resource' = resource
        /\ \A k \in Keys :
              outcomes[k]["Err"] > 0 =>
                  /\ k \notin DOMAIN resource'
                  /\ outcomes'[k]["Vacant"] = 0
                  /\ outcomes'[k]["Occupied"] = 0 ]_resolverVars

\* a descriptor that has no sound effect failed twice under that category, a
\* resolvable key being cached before the second call
C21_Witness ==
    \E k \in Keys :
        /\ outcomes[k]["Err"] = 2
        /\ lastEntry.key = k /\ lastEntry.outcome = "Err"
        /\ lastEntry.err = ResolveError(k.kind, k.res)
        /\ resource # << >>
        /\ k \notin DOMAIN resource

\* the uses of category c in which descriptor d was looked up
LookedUp(d, c) == {u \in Uses : UseType(u) = c /\ <<u, d>> \in DOMAIN looks}

(***************************************************************************)
(* C22 (as stated): the first lookup of a descriptor in each of its uses   *)
(* is Vacant when the descriptor resolves there; a descriptor shown once   *)
(* as a background and once as a card still has two entries.               *)
(***************************************************************************)
C22_AsStated ==
    \A d \in Descriptors : \A u \in {"background", "cardstill"} :
        (<<u, d>> \in DOMAIN looks /\ resolve(d, UseType(u)) # None)
            => looks[<<u, d>>] = "Vacant"

(***************************************************************************)
(* C22 (amended): the cache is keyed by (descriptor, ResourceType), the    *)
(* type being Image, Bgm or Se. Backgrounds and card stills are both       *)
(* resolved under Image and share one entry: of the first lookups of a     *)
(* descriptor as background and as card still exactly one is Vacant. The   *)
(* same holds for the uses resolved under Bgm, and an entry under one type *)
(* never answers a lookup under the other.                                 *)
(***************************************************************************)
C22_KeyedByResourceType ==
    \A d \in Descriptors : \A c \in {"Image", "Bgm"} :
        (LookedUp(d, c) # {} /\ resolve(d, c) # None)
            => /\ Cardinality({u \in LookedUp(d, c) : looks[<<u, d>>] = "Vacant"}) = 1
               /\ NormalKey(d, c) \in DOMAIN resource

\* one descriptor was shown as a background, as a card still and played as
\* music: two entries, the card still found the background's
C22_Witness ==
    \E d \in Descriptors :
        /\ LookedUp(d, "Image") = {"background", "cardstill"}
        /\ looks[<<"background", d>>] = "Vacant"
        /\ looks[<<"cardstill", d>>] = "Occupied"
        /\ "bgm" \in LookedUp(d, "Bgm") /\ looks[<<"bgm", d>>] = "Vacant"
        /\ Cardinality(DOMAIN resource) = 2

\* a download task has completed: its request has ended, or it was never to run
Completed(i) == dtasks[i].pc \notin {"queued", "spawned", "active"}

(***************************************************************************)
(* C23 (as stated): when wait() of the DefaultDownloader returns (and the  *)
(* downloader was not shut down), every task enqueued by download or       *)
(* download_bind before the call has completed, those that had not started *)
(* at the call included.                                                   *)
(***************************************************************************)
C23_AsStated ==
    (caller.pc = "returned" /\ ~dstate.shutdown) =>
        \A i \in caller.waitOn : Completed(i)

(***************************************************************************)
(* C24 (as stated): at most one callback of the DefaultDownloader is       *)
(* executing at any time; a lazy callback is never called while a bind     *)
(* callback runs, nor the other way round.                                 *)
(***************************************************************************)
C24_AsStated ==
    Cardinality({i \in DOMAIN dtasks : dtasks[i].pc = "calling"}) <= 1

\* worker w ends an attempt of job t in this step, and keeps t for another one
Requeued(w, t) ==
    /\ Fetching(w, t)
    /\ workers'[w].pc # "fetch"
    /\ jobs'[t].sent = "none"
    /\ jobs'[t].senderAlive

(***************************************************************************)
(* C25: a job whose attempt failed below its retry limit goes to the back  *)
(* of its worker's local queue, behind every job that is in it; the worker *)
(* takes its next job from the front and keeps the order of the others, so *)
(* the jobs that were queued are attempted before the failed job is        *)
(* retried. A queued job has failed fewer than TASK_MAX_RETRIES times, so  *)
(* the retries it can put before another job are bounded.                  *)
(***************************************************************************)
C25_RetryAtBack ==
    [][\A w \in DOMAIN workers :
          /\ \A t \in DOMAIN jobs :
                Requeued(w, t) => workers'[w].tasks = Append(workers[w].tasks, t)
          /\ (workers[w].pc = "recv" /\ workers[w].tasks # <<>> /\ workers'[w].pc = "fetch")
                => /\ workers'[w].cur = Head(workers[w].tasks)
                   /\ \A i \in 2..Len(workers[w].tasks) :
                         workers'[w].tasks[i - 1] = workers[w].tasks[i]
          /\ \A i \in 1..Len(workers'[w].tasks) :
                jobs'[workers'[w].tasks[i]].count < TASK_MAX_RETRIES ]_vars

\* a job that never failed is being fetched while a job that failed waits behind
\* it in the local queue, a third job having been received after the failure
C25_Witness ==
    \E w \in DOMAIN workers :
        /\ workers[w].pc = "fetch"
        /\ jobs[workers[w].cur].count = 0
        /\ Len(workers[w].tasks) >= 2
        /\ jobs[workers[w].tasks[1]].count >= 1

\* worker w ends its attempt of job t in this step
AttemptEnds(w, t) == Fetching(w, t) /\ workers'[w].pc # "fetch"

(***************************************************************************)
(* C26: the consecutive-failure count of a worker is below                 *)
(* CLIENT_RESTART_FAILURE_THRESHOLD whenever the worker is at the top of   *)
(* its loop. A failed attempt adds one to it and to the job's own count, a *)
(* delivered fetch sets it to 0, and the attempt at which it reaches the   *)
(* threshold ends with the restart: the count is 0 again before the next   *)
(* job is taken.                                                           *)
(***************************************************************************)
C26_CountBelowThreshold ==
    [][\A w \in DOMAIN workers :
          /\ workers'[w].pc # "fetch" => workers'[w].count < CLIENT_RESTART_FAILURE_THRESHOLD
          /\ \A t \in DOMAIN jobs :
                AttemptEnds(w, t) =>
                    CASE jobs'[t].sent = "ok" -> workers'[w].count = 0
                      [] jobs'[t].sent = "io" -> workers'[w].count = workers[w].count
                      [] OTHER ->
                          /\ workers'[w].count =
                                IF workers[w].count + 1 = CLIENT_RESTART_FAILURE_THRESHOLD
                                THEN 0 ELSE workers[w].count + 1
                          /\ jobs'[t].sent = "none" => jobs'[t].count = jobs[t].count + 1
                          /\ workers[w].count + 1 = CLIENT_RESTART_FAILURE_THRESHOLD
                                => workers'[w].successes_since_restart = 0 ]_vars

\* a worker that restarted its client after five failures in a row is back at the
\* top of its loop, jobs still waiting
C26_Witness ==
    \E w \in DOMAIN workers :
        /\ workers[w].pc = "check"
        /\ workers[w].restart_count = 1
        /\ workers[w].client = 1
        /\ workers[w].count = 0
        /\ workers[w].tasks # <<>>

\* the attempt of job t that worker w ends in this step is the failure that brings
\* its count to the threshold: the client restart is part of the step
Restarts(w, t) ==
    /\ AttemptEnds(w, t)
    /\ jobs'[t].sent \notin {"ok", "io"}
    /\ workers[w].count + 1 = CLIENT_RESTART_FAILURE_THRESHOLD

(***************************************************************************)
(* C27: a client restart whose rebuild fails does not end the worker: the  *)
(* worker keeps the client it had, its consecutive-failure count is 0      *)
(* after it, and it goes on to the top of its loop (dropping the task on   *)
(* the way if the attempt was its last) with its local queue.              *)
(***************************************************************************)
C27_FailedRebuildKeepsWorker ==
    [][\A w \in DOMAIN workers : \A t \in DOMAIN jobs :
          Restarts(w, t) =>
              /\ workers'[w].client \in {workers[w].client, workers[w].client + 1}
              /\ workers'[w].pc = IF jobs'[t].sent = "none" THEN "check" ELSE "drop"
              /\ workers'[w].count = 0
              /\ \A i \in 1..Len(workers[w].tasks) :
                    workers'[w].tasks[i] = workers[w].tasks[i] ]_vars

\* a worker whose only restart failed to rebuild the client is fetching the next job
C27_Witness ==
    \E w \in DOMAIN workers :
        /\ workers[w].pc = "fetch"
        /\ workers[w].restart_count = 1
        /\ workers[w].client = 0
        /\ workers[w].count = 0

\* the job worker w pops next: the front of its local queue, or the command it
\* receives on an empty one (0: none)
Popped(w) ==
    IF workers[w].tasks # <<>> THEN Head(workers[w].tasks)
    ELSE IF queue # <<>> THEN Head(queue) ELSE 0

\* worker w pops a job in this step
Pops(w) == workers[w].pc = "recv" /\ workers'[w] # workers[w] /\ Popped(w) # 0

(***************************************************************************)
(* C28: a worker that pops a job whose cancel flag is set starts no        *)
(* request for it and sends nothing on its result channel; the task is     *)
(* dropped, its failure count is not raised, and the worker's counters and *)
(* client stay as they were.                                               *)
(***************************************************************************)
C28_CancelledJobDiscarded ==
    [][\A w \in DOMAIN workers :
          (Pops(w) /\ jobs[Popped(w)].cancel) =>
              /\ workers'[w].pc = "check"
              /\ workers'[w].cur = workers[w].cur
              /\ \A i \in 1..Len(workers'[w].tasks) : workers'[w].tasks[i] # Popped(w)
              /\ jobs'[Popped(w)].sent = jobs[Popped(w)].sent
              /\ ~jobs'[Popped(w)].senderAlive
              /\ jobs'[Popped(w)].count <= jobs[Popped(w)].count
              /\ workers'[w].count = workers[w].count
              /\ workers'[w].restart_count = workers[w].restart_count
              /\ workers'[w].successes_since_restart = workers[w].successes_since_restart
              /\ workers'[w].client = workers[w].client ]_vars

\* a job that had failed once was cancelled by its handle while it waited for its
\* retry; the worker popped and dropped it, its own failure count still standing
C28_Witness ==
    \E w \in DOMAIN workers, j \in DOMAIN jobs :
        /\ ~poolCancel /\ poolAlive
        /\ jobs[j].hcancel /\ ~jobs[j].senderAlive /\ jobs[j].sent = "none"
        /\ workers[w].pc = "check"
        /\ workers[w].count = 1
        /\ \A k \in DOMAIN jobs \ {j} : jobs[k].count = 0 /\ jobs[k].sent = "none"

\* job j waits for an attempt or is being attempted
InPool(j) ==
    \/ \E i \in 1..Len(queue) : queue[i] = j
    \/ \E w \in DOMAIN workers :
          \/ \E i \in 1..Len(workers[w].tasks) : workers[w].tasks[i] = j
          \/ Fetching(w, j)

\* the handle of resource i is joined in this step
Joins(i) == hs[i].kind = "Common" /\ hs[i].st # "joined" /\ hs'[i].st = "joined"

(***************************************************************************)
(* C29: a body that fails to decompress, and a file that cannot be         *)
(* written, are not retried. The Io error of a failed decompression is     *)
(* sent at the attempt that fetched the body; a job whose result was sent  *)
(* waits for no further attempt; the join of its handle returns a download *)
(* error of kind Io, also when writing the fetched bytes fails.            *)
(***************************************************************************)
C29_NotRetried ==
    [][ /\ \A j \in DOMAIN jobs :
              /\ (jobs[j].sent = "none" /\ jobs'[j].sent = "io")
                    => \E w \in DOMAIN workers : AttemptEnds(w, j)
              /\ jobs[j].sent # "none" => (~InPool(j) /\ jobs'[j].sent = jobs[j].sent)
        /\ \A i \in DOMAIN hs :
              Joins(i) =>
                  /\ jobs[hs[i].job].sent = "io" =>
                        hs'[i].result =
                            DownloadError(batch[i].url, absolute_path(batch[i], Root), "io")
                  /\ (jobs[hs[i].job].sent = "ok" /\ IsErr(hs'[i].result)) =>
                        /\ hs'[i].result =
                              DownloadError(batch[i].url, absolute_path(batch[i], Root), "io")
                        /\ absolute_path(batch[i], Root) \notin files' \ files ]_vars

\* of two resources one was fetched with a body that did not decompress, at its
\* first attempt, the other was fetched and could not be written: both handles
\* returned an Io error and the pool holds no job
C29_Witness ==
    \E i, k \in DOMAIN hs :
        /\ hs[i].kind = "Common" /\ hs[i].st = "joined" /\ jobs[hs[i].job].sent = "io"
        /\ hs[i].result.error = "io"
        /\ hs[k].kind = "Common" /\ hs[k].st = "joined" /\ jobs[hs[k].job].sent = "ok"
        /\ hs[k].result.error = "io"
        /\ \A w \in DOMAIN workers : workers[w].count = 0 /\ workers[w].tasks = <<>>
        /\ queue = <<>>

(***************************************************************************)
(* C30: DownloadPipeline::run joins a handle only when that handle has     *)
(* reported is_finished() = true, joins every submitted handle exactly     *)
(* once, and keeps in its list every handle that has not reported          *)
(* finished: taking the finished positions out by swap_remove, last        *)
(* position first, removes the joined handle and no other.                 *)
(***************************************************************************)
InList(p, i) == \E k \in DOMAIN p.handles : p.handles[k] = i

JoinedNow(i) == hs[i].st # "joined" /\ hs'[i].st = "joined"

C30_JoinsFinishedOnce ==
    [][ /\ \A i \in DOMAIN hs :
              /\ JoinedNow(i) =>
                    /\ handle_is_finished(i)
                    /\ hs[i].st = "held"
                    /\ InList(pipe, i) /\ ~InList(pipe', i)
                    /\ \A o \in DOMAIN hs \ {i} : InList(pipe, o) => InList(pipe', o)
              /\ hs[i].st = "joined" => (hs'[i].st = "joined" /\ ~InList(pipe', i))
              /\ (InList(pipe, i) /\ ~handle_is_finished(i)
                    /\ pipe'.pc \notin {"done", "panicked", "held"})
                    => InList(pipe', i)
        /\ \A k, l \in DOMAIN pipe'.handles :
              pipe'.handles[k] = pipe'.handles[l] => k = l
        /\ (pipe.pc # "done" /\ pipe'.pc = "done")
              => \A i \in DOMAIN hs' : hs'[i].st = "joined" ]_vars

\* the handle submitted first was joined and left the list while the one submitted
\* after it, not finished yet, moved to the first position and is still held
C30_Witness ==
    /\ pipe.pc \in {"check", "poll", "join", "wsuccess", "wfailed"}
    /\ \E i, o \in DOMAIN hs :
          /\ i < o
          /\ hs[i].st = "joined"
          /\ hs[o].st = "held" /\ ~handle_is_finished(o)
          /\ pipe.handles = <<o>>

(***************************************************************************)
(* C31: when cancel() is never called and every fetch ends, the loop of    *)
(* DownloadPipeline::run eventually finds its list of handles empty and    *)
(* stores the pipeline's flag: is_finished() becomes true and stays true.  *)
(***************************************************************************)
C31_PipelineFinishes ==
    <>[](PipelineIsFinished /\ pipe.pc = "done" /\ pipe.handles = <<>>)

\* a batch of two resources ran to its end: both handles were joined, the loop
\* found nothing left and the flag reads true
C31_Witness ==
    /\ Len(batch) = 2
    /\ \A i \in DOMAIN hs : hs[i].st = "joined"
    /\ pipe.pc = "done"
    /\ PipelineIsFinished

\* the model configuration file of the figure that is resource c
ConfigOf(c) == default_model_config_path(absolute_path(batch[c], Root))

\* the step submits a fetch that is not the build script of resource c
SubmitsDerived(c) ==
    /\ Len(jobs') > Len(jobs)
    /\ jobs'[Len(jobs')].url # batch[c].url

(***************************************************************************)
(* C32: a Live2dDownloadWorker goes through its steps in order. It submits *)
(* a fetch of a derived resource only after the build script was fetched   *)
(* and parsed and the model configuration written; the configuration is    *)
(* written only by the step that joined a fetched, parsing build script;   *)
(* and when the fetch or the parse of the build script fails the thread    *)
(* ends there: no configuration is written and no derived resource is      *)
(* fetched, then or later.                                                 *)
(***************************************************************************)
C32_StepsInOrder ==
    [][\A c \in DOMAIN coords :
          /\ SubmitsDerived(c) =>
                /\ ConfigOf(c) \in files
                /\ server.parses
                /\ \E j \in DOMAIN jobs :
                      /\ jobs[j].url = batch[c].url
                      /\ jobs[j].sent = "ok" /\ jobs[j].handle = "joined"
          /\ (ConfigOf(c) \notin files /\ ConfigOf(c) \in files') =>
                /\ coords[c].pc = "manifest"
                /\ jobs[coords[c].job].sent = "ok" /\ server.parses
                /\ Len(jobs') = Len(jobs)
          /\ (coords[c].pc = "manifest" /\ coords'[c].pc # "manifest"
                /\ (jobs[coords[c].job].sent # "ok" \/ ~server.parses)) =>
                /\ coords'[c].pc \in {"ended", "panicked"}
                /\ files' = files
                /\ Len(jobs') = Len(jobs)
          /\ coords[c].pc \in {"ended", "panicked"} =>
                /\ coords'[c].pc = coords[c].pc
                /\ files' = files
                /\ Len(jobs') = Len(jobs) ]_vars

\* a coordinator waits for its first texture: the build script was fetched and
\* parsed, the configuration is written, the model and the physics file fetched
C32_Witness ==
    \E c \in DOMAIN coords :
        /\ coords[c].pc = "derived" /\ coords[c].idx = 3
        /\ ConfigOf(c) \in files
        /\ Len(jobs) = 4

(***************************************************************************)
(* C33: the cancel flag of a job, of a compound handle, of the pool and of *)
(* the pipeline only ever goes from false to true: no step of any thread   *)
(* finds one of them true and leaves it false.                             *)
(***************************************************************************)
C33_FlagsOnlySet ==
    [][ /\ \A j \in DOMAIN jobs : jobs[j].cancel => jobs'[j].cancel
        /\ \A c \in DOMAIN coords : coords[c].cancel => coords'[c].cancel
        /\ poolCancel => poolCancel'
        /\ PipelineIsFinished => PipelineIsFinished' ]_vars

\* the four kinds of flag all read true, and the pipeline's was stored by a
\* cancel() of the owner while run() had not ended
C33_Witness ==
    /\ \E j \in DOMAIN jobs : jobs[j].cancel
    /\ \E c \in DOMAIN coords : coords[c].cancel
    /\ poolCancel
    /\ PipelineIsFinished
    /\ user.handle = "none"
    /\ pipe.pc = "panicked"

\* the task of job j is in the hands of worker w: in its local queue or in the
\* network request it is making
HoldsTask(w, j) ==
    \/ workers[w].pc = "fetch" /\ workers[w].cur = j
    \/ \E k \in DOMAIN workers[w].tasks : workers[w].tasks[k] = j

\* the command of job j is in the channel the workers share
InChannel(j) == \E k \in DOMAIN queue : queue[k] = j

(***************************************************************************)
(* C34: a submitted job is received by one worker at most, from the shared *)
(* channel, and never returns to the channel, so the worker that received  *)
(* it is the only one that ever attempts it and its attempts follow one    *)
(* another; and once a result was sent on its channel no other result is   *)
(* sent and no worker holds the job any more.                              *)
(***************************************************************************)
C34_OneWorkerOneResult ==
    [][\A j \in DOMAIN jobs :
          /\ \A w, v \in DOMAIN workers : (HoldsTask(w, j) /\ HoldsTask(v, j)) => w = v
          /\ \A w \in DOMAIN workers :
                /\ HoldsTask(w, j) => ~InChannel(j)
                /\ \A k, l \in DOMAIN workers[w].tasks :
                      workers[w].tasks[k] = workers[w].tasks[l] => k = l
                /\ (workers[w].pc = "fetch" /\ workers[w].cur = j) =>
                      \A k \in DOMAIN workers[w].tasks : workers[w].tasks[k] # j
                /\ (~HoldsTask(w, j) /\ HoldsTask(w, j)') =>
                      (InChannel(j) /\ jobs[j].count = 0 /\ jobs[j].sent = "none")
          /\ ~InChannel(j) => ~InChannel(j)'
          /\ jobs[j].sent # "none" =>
                /\ jobs'[j].sent = jobs[j].sent
                /\ \A w \in DOMAIN workers : ~HoldsTask(w, j) /\ ~HoldsTask(w, j)'
                /\ ~InChannel(j) ]_vars

\* with two workers running, one of them is at the second attempt of a job
\* while the other fetches another job
C34_Witness ==
    \E w, v \in DOMAIN workers :
        /\ w # v
        /\ workers[w].pc = "fetch" /\ jobs[workers[w].cur].count = 1
        /\ workers[v].pc = "fetch" /\ workers[v].cur # workers[w].cur

\* the flag of job j reads true and neither cancel() on its handle (or the
\* handle's Drop) nor the cancellation of the pool stored it: the job completed
CompletedJob(j) == jobs[j].cancel /\ ~jobs[j].hcancel /\ ~poolCancel

(***************************************************************************)
(* C35: for a job that nobody cancels, the result is on the job's channel  *)
(* before the job's flag is stored: the step that stores the flag finds    *)
(* the result already sent, so whenever is_finished() of the handle reads  *)
(* true for a completed job, recv() in join() has a result to return: it   *)
(* does not block and the unwrap does not panic.                           *)
(***************************************************************************)
C35_ResultBeforeFlag ==
    [][\A j \in DOMAIN jobs :
          /\ (~jobs[j].cancel /\ CompletedJob(j)') => jobs[j].sent # "none"
          /\ CompletedJob(j) =>
                /\ jobs[j].sent # "none"
                /\ JoinReady(j)
                /\ jobs'[j].sent = jobs[j].sent
                /\ (jobs[j].handle = "held" /\ jobs'[j].handle \in {"joined", "panicked"})
                      => jobs'[j].handle = "joined" ]_vars

\* a job was fetched, its flag was stored by the drop of its task, and join()
\* on its handle returned the bytes; the pool is still running
C35_Witness ==
    \E j \in DOMAIN jobs :
        /\ CompletedJob(j)
        /\ jobs[j].sent = "ok"
        /\ jobs[j].handle = "joined"
        /\ poolAlive

(***************************************************************************)
(* C36 (as stated): once the cancel flag of the pool is set, no worker     *)
(* starts a network request for any job, a worker that was waiting on the  *)
(* shared channel when the flag was set included.                          *)
(***************************************************************************)
C36_AsStated ==
    [][\A w \in DOMAIN workers :
          poolCancel => ~(workers[w].pc # "fetch" /\ workers'[w].pc = "fetch") ]_vars

NewVacant == {k \in Keys : outcomes'[k]["Vacant"] > outcomes[k]["Vacant"]}

\* the places of resource r in the list the transpiler hands to the download
ListedAt(list, r) == {i \in DOMAIN list : list[i] = r}

TasksAt(p) == {i \in DOMAIN dtasks : dtasks[i].pc = p}

\* the permits of the semaphore that are held by a future
PermitsHeld == Cardinality(TasksAt("active")) + Cardinality(TasksAt("fetched"))

LaterCalls(p) == {j \in DOMAIN p.results : \E i \in 1..(j - 1) : p.results[i] = "Ok"}

(***************************************************************************)
(* C40 (as stated): process() of the DefaultPipeline starts the background *)
(* work at most once: after a process() call that returned Ok every later  *)
(* call returns PipelineError::BadStart and no second thread is spawned,   *)
(* however soon the later call follows the first.                          *)
(***************************************************************************)
C40_AsStated ==
    /\ Len(dpipeline.threads) <= 1
    /\ \A j \in LaterCalls(dpipeline) : dpipeline.results[j] = "BadStart"

====
